---- MODULE Spec2Model ----
(***************************************************************************)
(* State-machine model of the HeatMap client: the friendship resolver and  *)
(* its mutations (FriendsScreen, FriendProfileScreen), the reaction toggle *)
(* (FeedCard, CardStack) against the reactions table, the comment thread   *)
(* builder (CommentSheet) and the card stack's swipe controller.           *)
(***************************************************************************)
EXTENDS Integers, Sequences, FiniteSets, TLC

VARIABLES
  \* ---- friendship graph (remote table + both screens of each user)
  friendships,     \* the friendships table, in row order
  nextEdgeId,      \* next id the table hands out
  fsFriendships,   \* FriendsScreen.friendships, per user
  fsRequests,      \* FriendsScreen.requests, per user (the rows' ids)
  fsFriends,       \* FriendsScreen.friends, per user (the rows' ids)
  fpStatus,        \* FriendProfileScreen.friendshipStatus, per user
  fpId,            \* FriendProfileScreen.friendshipId, per user
  \* ---- resolver run on an arbitrary edge list
  rEdges, rViewer, rOther, rOut,
  \* ---- the local part of a reaction toggle on arbitrary props
  tCounts,         \* reactionCounts
  tUser,           \* userReaction
  tOrig,           \* the <<counts, userReaction>> the run started from
  tHist,           \* the emoji toggled so far, in order
  \* ---- one user's reaction on one post: table, feed card, card stack
  dbMine,          \* emoji of the reactions rows of (post, user)
  dbOthers,        \* per emoji, the rows other users hold on the post
  feedCounts,      \* FeedScreen.reactionsByPostId[post]
  feedUser,        \* FeedScreen.userReactionsByPostId[post]
  feedCalls,       \* requests the feed card fired that the store has not run
  feedFetch,       \* the reactions read of a fetchPage, until it is applied
  stackCounts,     \* CardStack.reactionCounts
  stackUser,       \* CardStack.userReaction
  stackCalls,      \* CardStack.handleReactionToggle runs awaiting a call
  stackFetch,      \* CardStack.fetchReactions, until it is applied
  taps,            \* reaction taps so far
  \* ---- the comment thread of one post
  cComments,       \* CommentSheet.comments, the rows as fetched
  cThreaded,       \* threadedComments, once the sheet has rendered
  cRendered,       \* whether the sheet has rendered the list
  \* ---- the card stack's swipe controller
  sLen,            \* posts.length
  sInitial,        \* the initialIndex prop
  currentIndex,    \* CardStack.currentIndex
  sNext,           \* `next` of the swipe whose animation is running
  sStart,          \* currentIndex when the stack opened
  sSwipes,         \* the swipes released beyond the threshold, in order
  \* ---- the card stack's life on the profile screen
  sClose,          \* "open", "closing" (handleClose ran), "closed" (unmounted)
  sDeleting,       \* posts.length closed over by the delete awaiting its calls
  sDeletes,        \* deletes confirmed so far
  \* ---- the feed screen of the viewer, and the tables its fetches read
  pTable,          \* ids of the rows of the posts table
  fAccepted,       \* users with an accepted friendship edge to the viewer
  fPosts,          \* FeedScreen.posts (ids)
  fHasMore,        \* FeedScreen.hasMore
  fLoading,        \* FeedScreen.loading
  fLoadingMore,    \* FeedScreen.loadingMore
  fFocused,        \* hasInitiallyFetched.current
  fFetches,        \* the fetchPage calls, in the order they were issued
  fFading,         \* FeedScreen.fadingOutId
  fRemoved,        \* the posts handleFadeComplete removed so far
  fEvents,         \* deletes, friendship changes and failed reads so far
  \* ---- failed friendship calls and the toast banner
  frFailures,      \* friendship calls that returned an error so far
  toastMessage,    \* ToastProvider.message
  \* ---- the aggregates fetchPage folds out of the rows it fetched
  aReactions,      \* the reactions rows of the page's posts, as fetched
  aComments,       \* the comments rows of the page's posts, newest first
  aStage,          \* "fetched", "reactions" (first loop ran), "done"
  countsByPost,    \* per post, per emoji, the rows counted
  userReactionsByPost, \* per post, the viewer's emoji
  commentCountByPost,  \* per post, the comments counted
  latestByPost,    \* per post, the id of the latest comment
  \* ---- the feed's aggregates, and the rows its reads fold
  fMaps,           \* reactionsByPostId, userReactionsByPostId,
                   \* commentCountByPostId, latestCommentByPostId
  rStore,          \* the reactions rows of the tracked post
  cStore,          \* how many comments rows the tracked post has
  rEvents,         \* toggles, other users' reactions and new posts so far
  \* ---- the card stack's flipped cards and the drags released on it
  sFlipped,        \* flippedByPostIdRef: the posts whose card shows its back
  sDrags,          \* the dx of the drags released so far, in order
  \* ---- the card stack's reactions fetches over several posts
  cRows,           \* reactions table: the rows <<user, emoji>> of each post
  cFetches,        \* the fetchReactions calls, in the order they were issued
  cShownFor,       \* the post whose response was applied last
  \* ---- AuthProvider
  session,         \* session: null, or the id of session.user
  profile,         \* profile: undefined, null, or the id of the profile row
  loading,         \* loading
  aStored,         \* the session the auth client holds
  aCalls           \* init, the auth events and refreshProfile, as they ran

friendVars == <<friendships, nextEdgeId, fsFriendships, fsRequests, fsFriends,
                fpStatus, fpId>>
resolveVars == <<rEdges, rViewer, rOther, rOut>>
toggleVars == <<tCounts, tUser, tOrig, tHist>>
reactVars == <<dbMine, dbOthers, feedCounts, feedUser, feedCalls, feedFetch,
               stackCounts, stackUser, stackCalls, stackFetch, taps>>
threadVars == <<cComments, cThreaded, cRendered>>
stackVars == <<sLen, sInitial, currentIndex, sNext, sStart, sSwipes>>
lifeVars == <<sClose, sDeleting, sDeletes>>
feedVars == <<pTable, fAccepted, fPosts, fHasMore, fLoading, fLoadingMore, fFocused,
              fFetches, fFading, fRemoved, fEvents>>
failVars == <<frFailures, toastMessage>>
aggVars == <<aReactions, aComments, aStage, countsByPost, userReactionsByPost,
             commentCountByPost, latestByPost>>
storeVars == <<fMaps, rStore, cStore, rEvents>>
flipVars == <<sFlipped, sDrags>>
focusVars == <<cRows, cFetches, cShownFor>>
authVars == <<session, profile, loading, aStored, aCalls>>
vars == <<friendVars, resolveVars, toggleVars, reactVars, threadVars, stackVars,
         lifeVars,
         feedVars,
         failVars,
         aggVars,
         storeVars,
         flipVars,
         focusVars,
         authVars>>

Null == "null"

\* ------------------------------------------------------------------------
\* Bounds
\* ------------------------------------------------------------------------
MaxEdges == 2        \* rows the friendships table ever receives
MaxListLen == 2      \* length of an arbitrary edge list given to the resolver
MaxCount == 2        \* largest emoji count in the props a toggle starts from
MaxToggles == 2      \* toggles applied in a row to arbitrary props
MaxTaps == 2         \* reaction taps of the user on the post
MaxComments == 3     \* comments of the post
MaxTime == 2         \* distinct created_at instants of the comments
MaxPosts == 3        \* posts a card stack is opened over
MaxSwipes == 3       \* swipes released beyond the threshold
MaxDeletes == 2      \* deletes confirmed in a card stack
MaxFetches == 2      \* fetchPage calls of the feed
MaxFeedEvents == 1   \* deletes, friendship changes and failed reads of the feed
MaxRows == 3         \* reactions rows, and comments rows, a page's reads return
MaxStoreEvents == 3  \* toggles of the viewer and rows other users write, in the feed

\* ------------------------------------------------------------------------
\* Friendship edges and the relationship resolver
\* ------------------------------------------------------------------------
Users == {"u1", "u2"}
AllUsers == {"u1", "u2", "u3"}
Statuses == {"pending", "accepted", "declined"}

OtherUser(u) == CHOOSE o \in Users : o # u

\* .or(`requester_id.eq.${userId},addressee_id.eq.${userId}`)
Touches(row, userId) == row.requester_id = userId \/ row.addressee_id = userId

\* Between, matching the viewer as requester only
Between_RequesterOnly(x, a, b) == x.requester_id = a /\ x.addressee_id = b

\* the predicate both screens hand to Array.prototype.find
Between(x, a, b) ==
  \/ (x.requester_id = a /\ x.addressee_id = b)
  \/ (x.requester_id = b /\ x.addressee_id = a)

\* what Array.prototype.find returns when nothing matches (undefined), and the
\* null friendshipId
NoEdge == [id |-> 0, requester_id |-> Null, addressee_id |-> Null, status |-> Null]
NoId == NoEdge.id

\* Array.prototype.find: the first matching element, or NoEdge
FindBetween(list, a, b) ==
  IF \E i \in 1..Len(list) : Between(list[i], a, b)
  THEN list[CHOOSE i \in 1..Len(list) :
              /\ Between(list[i], a, b)
              /\ \A j \in 1..(i - 1) : ~Between(list[j], a, b)]
  ELSE NoEdge

\* select('*') over the rows touching userId, in table order
RowsOf(table, userId) == SelectSeq(table, LAMBDA row : Touches(row, userId))

\* FriendProfileScreen.fetchFriendshipStatus, the part after the rows arrive:
\* the new <<friendshipStatus, friendshipId>>
StatusOfMatch(match, myUserId) ==
  IF match.status = "accepted" THEN "friends"
  ELSE IF match.requester_id = myUserId THEN "pending_sent"
  ELSE "pending_received"

fetchFriendshipStatus(myUserId, targetUserId, rows) ==
  IF myUserId = targetUserId THEN "none"
  ELSE LET match == FindBetween(rows, myUserId, targetUserId)
       IN IF match = NoEdge THEN "none" ELSE StatusOfMatch(match, myUserId)

\* FriendsScreen.searchResults for one profile p: the buttonState
buttonState(userId, p, list) ==
  LET f == FindBetween(list, userId, p)
  IN IF f = NoEdge THEN "add"
     ELSE IF f.status = "accepted" THEN "friends"
     ELSE IF f.requester_id = userId THEN "pending"
     ELSE "accept"

\* the relationship state each button stands for
StateOfButton(b) ==
  CASE b = "add" -> "none"
    [] b = "friends" -> "friends"
    [] b = "pending" -> "pending_sent"
    [] b = "accept" -> "pending_received"

RelationshipStates == {"none", "pending_sent", "pending_received", "friends"}

\* what a fresh fetch by viewer resolves for other, on either screen
ResolveProfile(viewer, other, table) ==
  fetchFriendshipStatus(viewer, other, RowsOf(table, viewer))
ResolveSearch(viewer, other, table) ==
  StateOfButton(buttonState(viewer, other, RowsOf(table, viewer)))

\* ------------------------------------------------------------------------
\* The resolver on an arbitrary edge list
\* ------------------------------------------------------------------------
EdgeShapes ==
  {e \in [requester_id : AllUsers, addressee_id : AllUsers, status : Statuses] :
     e.requester_id # e.addressee_id}

WithIds(shapes) ==
  [i \in 1..Len(shapes) |->
     [id |-> i, requester_id |-> shapes[i].requester_id,
      addressee_id |-> shapes[i].addressee_id, status |-> shapes[i].status]]

EdgeLists ==
  UNION {{WithIds(s) : s \in [1..n -> EdgeShapes]} : n \in 0..MaxListLen}

NoResult == [screen |-> Null, mine |-> Null, theirs |-> Null]

ResolveInit ==
  /\ rEdges \in EdgeLists
  /\ rViewer \in AllUsers
  /\ rOther \in AllUsers \ {rViewer}
  /\ rOut = NoResult

ResolveIdleInit ==
  /\ rEdges = <<>>
  /\ rViewer = "u1"
  /\ rOther = "u2"
  /\ rOut = NoResult

\* a run of the resolver leaves the other components alone
ResolveOnly == UNCHANGED <<friendVars, toggleVars, reactVars, threadVars, stackVars,
    lifeVars,
    feedVars,
    failVars,
    aggVars,
    storeVars,
    flipVars,
    focusVars,
    authVars>>

\* the profile screen's resolver, run by both users over the same list
RunProfileResolver ==
  /\ rOut = NoResult
  /\ rOut' = [screen |-> "profile",
              mine |-> ResolveProfile(rViewer, rOther, rEdges),
              theirs |-> ResolveProfile(rOther, rViewer, rEdges)]
  /\ UNCHANGED <<rEdges, rViewer, rOther>>
  /\ ResolveOnly

\* the friends screen's resolver, run by both users over the same list
RunSearchResolver ==
  /\ rOut = NoResult
  /\ rOut' = [screen |-> "search",
              mine |-> ResolveSearch(rViewer, rOther, rEdges),
              theirs |-> ResolveSearch(rOther, rViewer, rEdges)]
  /\ UNCHANGED <<rEdges, rViewer, rOther>>
  /\ ResolveOnly

\* ------------------------------------------------------------------------
\* The friendships table and the two screens that mutate it
\* ------------------------------------------------------------------------
\* InsertPending with the two user ids exchanged
InsertPending_Swapped(table, id, requester, addressee) ==
  Append(table, [id |-> id, requester_id |-> addressee,
                 addressee_id |-> requester, status |-> "pending"])

\* insert({requester_id, addressee_id, status: 'pending'})
InsertPending(table, id, requester, addressee) ==
  Append(table, [id |-> id, requester_id |-> requester,
                 addressee_id |-> addressee, status |-> "pending"])

\* update({status}).eq('id', friendshipId)
UpdateStatus(table, id, status) ==
  [i \in 1..Len(table) |->
     IF table[i].id = id THEN [table[i] EXCEPT !.status = status] ELSE table[i]]

\* delete().eq('id', friendshipId); also prev.filter((f) => f.id !== friendshipId)
WithoutId(list, id) == SelectSeq(list, LAMBDA row : row.id # id)
WithoutIdIn(ids, id) == SelectSeq(ids, LAMBDA x : x # id)

\* the ids of a list of rows, in order (the screens' lists are keyed by row id)
IdsOf(rows) == [i \in 1..Len(rows) |-> rows[i].id]

\* FriendsScreen.fetchFriends: accepted rows touching userId
AcceptedOf(table, userId) ==
  SelectSeq(table, LAMBDA row : row.status = "accepted" /\ Touches(row, userId))

\* FriendsScreen.fetchRequests: pending rows addressed to userId
RequestsOf(table, userId) ==
  SelectSeq(table, LAMBDA row : row.status = "pending" /\ row.addressee_id = userId)

EdgesBetween(table, a, b) ==
  {i \in 1..Len(table) : Between(table[i], a, b)}

FriendsInit ==
  /\ friendships = <<>>
  /\ nextEdgeId = 1
  /\ fsFriendships = [u \in Users |-> <<>>]
  /\ fsRequests = [u \in Users |-> <<>>]
  /\ fsFriends = [u \in Users |-> <<>>]
  /\ fpStatus = [u \in Users |-> "none"]
  /\ fpId = [u \in Users |-> NoId]

\* A remote call that returns an error makes every handler below return after
\* showToast(error.message) with the table and the screen state as they were;
\* the actions are the handlers' runs whose call succeeded.

\* a step of the friendship screens leaves the other components alone
FriendsOnly == UNCHANGED <<resolveVars, toggleVars, reactVars, threadVars, stackVars,
    lifeVars,
    feedVars,
    failVars,
    aggVars,
    storeVars,
    flipVars,
    focusVars,
    authVars>>

\* FriendsScreen focus effect / handleRefresh: the three fetches
FS_Focus(u) ==
  /\ fsFriendships' = [fsFriendships EXCEPT ![u] = RowsOf(friendships, u)]
  /\ fsRequests' = [fsRequests EXCEPT ![u] = IdsOf(RequestsOf(friendships, u))]
  /\ fsFriends' = [fsFriends EXCEPT ![u] = IdsOf(AcceptedOf(friendships, u))]
  /\ UNCHANGED <<friendships, nextEdgeId, fpStatus, fpId>>
  /\ FriendsOnly

\* FriendsScreen.handleAddFriend, offered while the button state is 'add'
FS_AddFriend(u) ==
  /\ buttonState(u, OtherUser(u), fsFriendships[u]) = "add"
  /\ nextEdgeId <= MaxEdges
  /\ friendships' = InsertPending(friendships, nextEdgeId, u, OtherUser(u))
  /\ nextEdgeId' = nextEdgeId + 1
  /\ fsFriendships' = [fsFriendships EXCEPT ![u] = RowsOf(friendships', u)]
  /\ UNCHANGED <<fsRequests, fsFriends, fpStatus, fpId>>
  /\ FriendsOnly

\* the effect on animatingRequestId, once handleAccept / handleDecline succeeded
AfterRequestAnimation(u, friendshipId) ==
  /\ fsRequests' = [fsRequests EXCEPT ![u] = WithoutIdIn(@, friendshipId)]
  /\ fsFriendships' = [fsFriendships EXCEPT ![u] = RowsOf(friendships', u)]
  /\ fsFriends' = [fsFriends EXCEPT ![u] = IdsOf(AcceptedOf(friendships', u))]

\* FriendsScreen.handleAccept / handleDecline on a friendship id
FS_SetStatus(u, friendshipId, status) ==
  /\ friendships' = UpdateStatus(friendships, friendshipId, status)
  /\ AfterRequestAnimation(u, friendshipId)
  /\ UNCHANGED <<nextEdgeId, fpStatus, fpId>>
  /\ FriendsOnly

\* the Accept button of a search result
FS_AcceptSearch(u) ==
  /\ buttonState(u, OtherUser(u), fsFriendships[u]) = "accept"
  /\ FS_SetStatus(u, FindBetween(fsFriendships[u], u, OtherUser(u)).id, "accepted")

\* the Accept button of a row of the requests modal
FS_AcceptRequest(u) ==
  \E i \in 1..Len(fsRequests[u]) : FS_SetStatus(u, fsRequests[u][i], "accepted")

\* the Decline button of a row of the requests modal
FS_Decline(u) ==
  \E i \in 1..Len(fsRequests[u]) : FS_SetStatus(u, fsRequests[u][i], "declined")

\* FriendsScreen.removeFriend on a row of the friends list
FS_Remove(u) ==
  \E i \in 1..Len(fsFriends[u]) :
    LET friendshipId == fsFriends[u][i] IN
    /\ friendships' = WithoutId(friendships, friendshipId)
    /\ fsFriends' = [fsFriends EXCEPT ![u] = WithoutIdIn(@, friendshipId)]
    /\ fsFriendships' = [fsFriendships EXCEPT ![u] = WithoutId(@, friendshipId)]
    /\ UNCHANGED <<nextEdgeId, fsRequests, fpStatus, fpId>>
    /\ FriendsOnly

\* FriendProfileScreen.loadAll / handleRefresh: fetchFriendshipStatus
FP_Load(u) ==
  LET rows == RowsOf(friendships, u)
      match == FindBetween(rows, u, OtherUser(u))
  IN /\ fpStatus' = [fpStatus EXCEPT ![u] = fetchFriendshipStatus(u, OtherUser(u), rows)]
     /\ fpId' = [fpId EXCEPT ![u] = match.id]
     /\ UNCHANGED <<friendships, nextEdgeId, fsFriendships, fsRequests,
                    fsFriends>>
     /\ FriendsOnly

\* FriendProfileScreen.handleAddFriend, offered while the status is 'none'
FP_AddFriend(u) ==
  /\ fpStatus[u] = "none"
  /\ nextEdgeId <= MaxEdges
  /\ friendships' = InsertPending(friendships, nextEdgeId, u, OtherUser(u))
  /\ nextEdgeId' = nextEdgeId + 1
  /\ fpStatus' = [fpStatus EXCEPT ![u] = "pending_sent"]
  /\ UNCHANGED <<fsFriendships, fsRequests, fsFriends, fpId>>
  /\ FriendsOnly

\* FriendProfileScreen.handleAcceptRequest, offered while 'pending_received'
FP_Accept(u) ==
  /\ fpStatus[u] = "pending_received"
  /\ fpId[u] # NoId
  /\ friendships' = UpdateStatus(friendships, fpId[u], "accepted")
  /\ fpStatus' = [fpStatus EXCEPT ![u] = "friends"]
  /\ UNCHANGED <<nextEdgeId, fsFriendships, fsRequests, fsFriends, fpId>>
  /\ FriendsOnly

\* FriendProfileScreen.handleRemoveFriend, offered while 'friends'
FP_Remove(u) ==
  /\ fpStatus[u] = "friends"
  /\ fpId[u] # NoId
  /\ friendships' = WithoutId(friendships, fpId[u])
  /\ fpStatus' = [fpStatus EXCEPT ![u] = "none"]
  /\ fpId' = [fpId EXCEPT ![u] = NoId]
  /\ UNCHANGED <<nextEdgeId, fsFriendships, fsRequests, fsFriends>>
  /\ FriendsOnly

FriendsNext ==
  \E u \in Users :
    \/ FS_Focus(u)
    \/ FS_AddFriend(u)
    \/ FS_AcceptSearch(u)
    \/ FS_AcceptRequest(u)
    \/ FS_Decline(u)
    \/ FS_Remove(u)
    \/ FP_Load(u)
    \/ FP_AddFriend(u)
    \/ FP_Accept(u)
    \/ FP_Remove(u)

\* ------------------------------------------------------------------------
\* Reaction counts and the local part of a toggle (FeedCard, CardStack)
\* ------------------------------------------------------------------------
Emojis == {"fire", "heart", "joy"}

\* Record<string, number>: a map defined on some of the emoji
CountMaps(max) == UNION {[S -> 0..max] : S \in SUBSET Emojis}

\* c[e] ?? dflt
Get(c, e, dflt) == IF e \in DOMAIN c THEN c[e] ELSE dflt

\* { ...c, [e]: v }
Put(c, e, v) == [x \in DOMAIN c \cup {e} |-> IF x = e THEN v ELSE c[x]]

\* Math.max(0, n)
Max0(n) == IF n > 0 THEN n ELSE 0

\* the decrement without its floor
Decrement_NoFloor(c, e) == Put(c, e, Get(c, e, 1) - 1)

\* Math.max(0, (c[e] ?? 1) - 1) stored at e
Decrement(c, e) == Put(c, e, Max0(Get(c, e, 1) - 1))

\* the increment, adding two
Increment_ByTwo(c, e) == Put(c, e, Get(c, e, 0) + 2)

\* (c[e] ?? 0) + 1 stored at e
Increment(c, e) == Put(c, e, Get(c, e, 0) + 1)

\* FeedCard.handleReactionToggle: the <<counts, userReaction>> it hands to
\* onReactionChange
FeedCardToggle(initialReactionCounts, initialUserReaction, emoji) ==
  LET prevReaction == initialUserReaction
      prevCounts == initialReactionCounts
  IN IF prevReaction = emoji
     THEN <<Decrement(prevCounts, emoji), Null>>
     ELSE LET nextCounts == IF prevReaction # Null
                            THEN Decrement(prevCounts, prevReaction)
                            ELSE prevCounts
          IN <<Increment(nextCounts, emoji), emoji>>

\* CardStack.handleReactionToggle: the state after setUserReaction and the
\* setReactionCounts updater have run
CardStackToggle(reactionCounts, userReaction, emoji) ==
  LET prevReaction == userReaction
  IN IF prevReaction = emoji
     THEN <<Decrement(reactionCounts, emoji), Null>>
     ELSE LET next == IF prevReaction # Null
                      THEN Decrement(reactionCounts, prevReaction)
                      ELSE reactionCounts
          IN <<Increment(next, emoji), emoji>>

ToggleInit ==
  /\ tCounts \in CountMaps(MaxCount)
  /\ tUser \in Emojis \cup {Null}
  /\ tOrig = <<tCounts, tUser>>
  /\ tHist = <<>>

ToggleIdleInit ==
  /\ tCounts = <<>>
  /\ tUser = Null
  /\ tOrig = <<tCounts, tUser>>
  /\ tHist = <<>>

ToggleOnly == UNCHANGED <<friendVars, resolveVars, reactVars, threadVars, stackVars,
    lifeVars,
    feedVars,
    failVars,
    aggVars,
    storeVars,
    flipVars,
    focusVars,
    authVars>>

\* a tap on an emoji of the feed card's reaction bar
FeedCardToggleStep ==
  \E emoji \in Emojis :
    /\ Len(tHist) < MaxToggles
    /\ tCounts' = FeedCardToggle(tCounts, tUser, emoji)[1]
    /\ tUser' = FeedCardToggle(tCounts, tUser, emoji)[2]
    /\ tHist' = Append(tHist, emoji)
    /\ UNCHANGED tOrig
    /\ ToggleOnly

\* a tap on an emoji of the card stack's reaction bar
CardStackToggleStep ==
  \E emoji \in Emojis :
    /\ Len(tHist) < MaxToggles
    /\ tCounts' = CardStackToggle(tCounts, tUser, emoji)[1]
    /\ tUser' = CardStackToggle(tCounts, tUser, emoji)[2]
    /\ tHist' = Append(tHist, emoji)
    /\ UNCHANGED tOrig
    /\ ToggleOnly

ToggleNext == FeedCardToggleStep \/ CardStackToggleStep

\* ------------------------------------------------------------------------
\* The reactions table, and the toggles of one user on one post
\* ------------------------------------------------------------------------
ReactEmojis == {"fire", "heart"}

\* insert under the earlier UNIQUE (post_id, user_id, emoji)
InsertRow_PerEmojiKey(rows, emoji) ==
  IF emoji \in rows
  THEN [rows |-> rows, error |-> TRUE]
  ELSE [rows |-> rows \cup {emoji}, error |-> FALSE]

\* insert({post_id, user_id, emoji}) under reactions_post_id_user_id_key,
\* UNIQUE (post_id, user_id)
InsertRow(rows, emoji) ==
  IF rows # {}
  THEN [rows |-> rows, error |-> TRUE]
  ELSE [rows |-> {emoji}, error |-> FALSE]

\* delete().eq('post_id', post.id).eq('user_id', userId)
DeleteRows(rows) == [rows |-> {}, error |-> FALSE]

\* a request the store never ran (NetworkFailure)
NotRun(rows) == [rows |-> rows, error |-> TRUE]

\* the store's answer to a request
RunCall(op, rows, emoji) ==
  IF op = "insert" THEN InsertRow(rows, emoji) ELSE DeleteRows(rows)

\* rows of the post per emoji, over all users
RowCount(mine, others, e) == others[e] + (IF e \in mine THEN 1 ELSE 0)

\* the fold of fetchReactions / fetchPage over select('*') of the post:
\* counts[emoji] = (counts[emoji] ?? 0) + 1 per row
FoldCounts(mine, others) ==
  [e \in {x \in ReactEmojis : RowCount(mine, others, x) > 0} |->
     RowCount(mine, others, e)]

\* ... and myReaction = emoji of the (last) row whose user_id is the viewer's
FoldMine(mine) == IF mine = {} THEN {Null} ELSE mine

\* the rows other users hold on the post: none, or one fire
OthersRows == {[e \in ReactEmojis |-> 0],
               [e \in ReactEmojis |-> IF e = "fire" THEN 1 ELSE 0]}

ReactInit ==
  /\ dbMine \in {{}} \cup {{e} : e \in ReactEmojis}
  /\ dbOthers \in OthersRows
  /\ feedCounts = FoldCounts(dbMine, dbOthers)
  /\ feedUser \in FoldMine(dbMine)
  /\ feedCalls = {}
  /\ feedFetch = <<>>
  /\ stackCounts = <<>>
  /\ stackUser = Null
  /\ stackCalls = {}
  /\ stackFetch = <<"sent">>
  /\ taps = 0

ReactIdleInit ==
  /\ dbMine = {}
  /\ dbOthers = [e \in ReactEmojis |-> 0]
  /\ feedCounts = <<>>
  /\ feedUser = Null
  /\ feedCalls = {}
  /\ feedFetch = <<>>
  /\ stackCounts = <<>>
  /\ stackUser = Null
  /\ stackCalls = {}
  /\ stackFetch = <<>>
  /\ taps = 0

ReactOnly == UNCHANGED <<friendVars, resolveVars, toggleVars, threadVars, stackVars,
    lifeVars,
    feedVars,
    failVars,
    aggVars,
    storeVars,
    flipVars,
    focusVars,
    authVars>>

\* ---- FeedScreen / FeedCard
\* the requests FeedCard.handleReactionToggle fires, none of them awaited
FeedCardRequests(n, prevCounts, prevReaction, emoji) ==
  LET call(op) == [tap |-> n, op |-> op, emoji |-> emoji,
                   prevCounts |-> prevCounts, prevReaction |-> prevReaction]
  IN IF prevReaction = emoji THEN {call("delete")}
     ELSE IF prevReaction # Null THEN {call("delete"), call("insert")}
     ELSE {call("insert")}

\* FeedCard.handleReactionToggle with FeedScreen's onReactionChange
FeedCardTap ==
  \E emoji \in ReactEmojis :
    /\ taps < MaxTaps
    /\ taps' = taps + 1
    /\ feedCounts' = FeedCardToggle(feedCounts, feedUser, emoji)[1]
    /\ feedUser' = FeedCardToggle(feedCounts, feedUser, emoji)[2]
    /\ feedCalls' = feedCalls \cup FeedCardRequests(taps', feedCounts, feedUser, emoji)
    /\ UNCHANGED <<dbMine, dbOthers, feedFetch, stackCounts, stackUser,
                   stackCalls, stackFetch>>
    /\ ReactOnly

\* the store runs a request of the feed card; .then(() => {}) drops the answer
FeedCallRun ==
  \E c \in feedCalls :
    /\ dbMine' = RunCall(c.op, dbMine, c.emoji).rows
    /\ feedCalls' = feedCalls \ {c}
    /\ UNCHANGED <<dbOthers, feedCounts, feedUser, feedFetch, stackCounts,
                   stackUser, stackCalls, stackFetch, taps>>
    /\ ReactOnly

\* a request of the feed card fails before the store runs it
FeedCallFail ==
  \E c \in feedCalls :
    /\ feedCalls' = feedCalls \ {c}
    /\ UNCHANGED <<dbMine, dbOthers, feedCounts, feedUser, feedFetch,
                   stackCounts, stackUser, stackCalls, stackFetch, taps>>
    /\ ReactOnly

\* FeedScreen.fetchPage(0, false): the reactions query reads the table
FeedFetchRead ==
  /\ feedFetch = <<>>
  /\ \E mine \in FoldMine(dbMine) :
       feedFetch' = <<FoldCounts(dbMine, dbOthers), mine>>
  /\ UNCHANGED <<dbMine, dbOthers, feedCounts, feedUser, feedCalls,
                 stackCounts, stackUser, stackCalls, stackFetch, taps>>
  /\ ReactOnly

\* ... and setReactionsByPostId / setUserReactionsByPostId replace the maps
FeedFetchApply ==
  /\ feedFetch # <<>>
  /\ feedCounts' = feedFetch[1]
  /\ feedUser' = feedFetch[2]
  /\ feedFetch' = <<>>
  /\ UNCHANGED <<dbMine, dbOthers, feedCalls, stackCounts, stackUser,
                 stackCalls, stackFetch, taps>>
  /\ ReactOnly

\* ---- CardStack
\* CardStack.fetchReactions: the query reads the table
StackFetchRead ==
  /\ stackFetch = <<"sent">>
  /\ \E mine \in FoldMine(dbMine) :
       stackFetch' = <<FoldCounts(dbMine, dbOthers), mine>>
  /\ UNCHANGED <<dbMine, dbOthers, feedCounts, feedUser, feedCalls, feedFetch,
                 stackCounts, stackUser, stackCalls, taps>>
  /\ ReactOnly

\* ... and setReactionCounts(counts); setUserReaction(myReaction)
StackFetchApply ==
  /\ Len(stackFetch) = 2
  /\ stackCounts' = stackFetch[1]
  /\ stackUser' = stackFetch[2]
  /\ stackFetch' = <<>>
  /\ UNCHANGED <<dbMine, dbOthers, feedCounts, feedUser, feedCalls, feedFetch,
                 stackCalls, taps>>
  /\ ReactOnly

\* the first call CardStack.handleReactionToggle awaits
FirstAwait(prevReaction, emoji) ==
  IF prevReaction = emoji THEN "delete_same"
  ELSE IF prevReaction # Null THEN "delete_switch"
  ELSE "insert"

\* CardStack.handleReactionToggle up to its first await
StackTap ==
  \E emoji \in ReactEmojis :
    /\ taps < MaxTaps
    /\ taps' = taps + 1
    /\ stackCounts' = CardStackToggle(stackCounts, stackUser, emoji)[1]
    /\ stackUser' = CardStackToggle(stackCounts, stackUser, emoji)[2]
    /\ stackCalls' = stackCalls \cup
         {[tap |-> taps', at |-> FirstAwait(stackUser, emoji), stage |-> "sent",
           emoji |-> emoji, prevCounts |-> stackCounts, prevReaction |-> stackUser]}
    /\ UNCHANGED <<dbMine, dbOthers, feedCounts, feedUser, feedCalls, feedFetch,
                   stackFetch>>
    /\ ReactOnly

OpAt(at) == IF at = "insert" THEN "insert" ELSE "delete"

\* the store runs the call a toggle of the card stack awaits
StackCallRun ==
  \E c \in stackCalls :
    /\ c.stage = "sent"
    /\ LET r == RunCall(OpAt(c.at), dbMine, c.emoji) IN
       /\ dbMine' = r.rows
       /\ stackCalls' = (stackCalls \ {c}) \cup
            {[c EXCEPT !.stage = IF r.error THEN "error" ELSE "ok"]}
    /\ UNCHANGED <<dbOthers, feedCounts, feedUser, feedCalls, feedFetch,
                   stackCounts, stackUser, stackFetch, taps>>
    /\ ReactOnly

\* the call a toggle of the card stack awaits fails before the store runs it
StackCallFail ==
  \E c \in stackCalls :
    /\ c.stage = "sent"
    /\ stackCalls' = (stackCalls \ {c}) \cup {[c EXCEPT !.stage = "error"]}
    /\ UNCHANGED <<dbMine, dbOthers, feedCounts, feedUser, feedCalls, feedFetch,
                   stackCounts, stackUser, stackFetch, taps>>
    /\ ReactOnly

\* StackResume, with the old row inserted again when the insert of a switch
\* returned an error
StackResume_Reinsert ==
  \E c \in stackCalls :
    /\ c.stage # "sent"
    /\ IF c.at = "delete_switch"
       THEN /\ stackCalls' = (stackCalls \ {c}) \cup
                 {[c EXCEPT !.at = "insert", !.stage = "sent"]}
            /\ UNCHANGED <<stackCounts, stackUser>>
       ELSE /\ stackCalls' = (stackCalls \ {c}) \cup
                 (IF c.stage = "error" /\ c.prevReaction # Null
                  THEN {[c EXCEPT !.at = "insert", !.stage = "sent",
                                  !.emoji = c.prevReaction]}
                  ELSE {})
            /\ IF c.stage = "error"
               THEN /\ stackUser' = c.prevReaction
                    /\ stackCounts' = c.prevCounts
               ELSE UNCHANGED <<stackCounts, stackUser>>
    /\ UNCHANGED <<dbMine, dbOthers, feedCounts, feedUser, feedCalls, feedFetch,
                   stackFetch, taps>>
    /\ ReactOnly

\* CardStack.handleReactionToggle resumes after the awaited call: the delete of
\* a switch is followed by the insert whatever it returned; an error of the
\* other two restores prevReaction and prevCounts
StackResume ==
  \E c \in stackCalls :
    /\ c.stage # "sent"
    /\ IF c.at = "delete_switch"
       THEN /\ stackCalls' = (stackCalls \ {c}) \cup
                 {[c EXCEPT !.at = "insert", !.stage = "sent"]}
            /\ UNCHANGED <<stackCounts, stackUser>>
       ELSE /\ stackCalls' = stackCalls \ {c}
            /\ IF c.stage = "error"
               THEN /\ stackUser' = c.prevReaction
                    /\ stackCounts' = c.prevCounts
               ELSE UNCHANGED <<stackCounts, stackUser>>
    /\ UNCHANGED <<dbMine, dbOthers, feedCounts, feedUser, feedCalls, feedFetch,
                   stackFetch, taps>>
    /\ ReactOnly

ReactNext ==
  \/ FeedCardTap
  \/ FeedCallRun
  \/ FeedCallFail
  \/ FeedFetchRead
  \/ FeedFetchApply
  \/ StackFetchRead
  \/ StackFetchApply
  \/ StackTap
  \/ StackCallRun
  \/ StackCallFail
  \/ StackResume

\* ------------------------------------------------------------------------
\* The comment thread builder (CommentSheet.buildThreadedComments)
\* ------------------------------------------------------------------------
NoParent == 0        \* parent_id null
Unknown == "unknown"

\* profiles.username of a comment's author; the third author has no profile row
UsernameOf(id) ==
  CASE id % 3 = 1 -> "alice"
    [] id % 3 = 2 -> "bob"
    [] OTHER -> Null

\* a list of n comments: ids are the rows' keys, the parent_id and created_at
\* of row i are f[i]
CommentList(n, f) ==
  [i \in 1..n |-> [id |-> i, parent_id |-> f[i][1], created_at |-> f[i][2],
                   username |-> UsernameOf(i)]]

\* a parent_id is null, another row's id, or an id no row of the list has
CommentFields(n) ==
  {f \in [1..n -> ((0..(n + 1)) \X (1..MaxTime))] : \A i \in 1..n : f[i][1] # i}

NoComment == [id |-> 0, parent_id |-> NoParent, created_at |-> 0, username |-> Null]

\* comments.find((p) => p.id === id)
FindComment(comments, id) ==
  IF \E i \in 1..Len(comments) : comments[i].id = id
  THEN comments[CHOOSE i \in 1..Len(comments) :
                  /\ comments[i].id = id
                  /\ \A j \in 1..(i - 1) : comments[j].id # id]
  ELSE NoComment

\* the sort key of a comment or of a reply entry
CreatedAt(x) == IF "comment" \in DOMAIN x THEN x.comment.created_at ELSE x.created_at

\* x placed behind every element of the sorted s that is not later than x
InsertByCreatedAt(x, s) ==
  LET k == CHOOSE k \in 0..Len(s) :
             /\ \A i \in 1..k : CreatedAt(s[i]) <= CreatedAt(x)
             /\ k < Len(s) => CreatedAt(s[k + 1]) > CreatedAt(x)
  IN SubSeq(s, 1, k) \o <<x>> \o SubSeq(s, k + 1, Len(s))

SortByCreatedAt_Unsorted(s) == s

\* .sort((a, b) => new Date(a.created_at) - new Date(b.created_at)), stable
RECURSIVE SortByCreatedAt(_)
SortByCreatedAt(s) ==
  IF s = <<>> THEN <<>>
  ELSE InsertByCreatedAt(s[Len(s)], SortByCreatedAt(SubSeq(s, 1, Len(s) - 1)))

IsTopLevel(c) == c.parent_id = NoParent

\* parent?.profiles?.username ?? 'unknown'
ParentUsername(comments, c) ==
  LET parent == FindComment(comments, c.parent_id)
  IN IF parent = NoComment \/ parent.username = Null THEN Unknown
     ELSE parent.username

\* repliesByParent[pid], sorted
RepliesByParent(comments, pid) ==
  LET IsReplyTo(c) == c.parent_id # NoParent /\ c.parent_id = pid
      replies == SelectSeq(comments, IsReplyTo)
  IN SortByCreatedAt([i \in 1..Len(replies) |->
                        [comment |-> replies[i],
                         parentUsername |-> ParentUsername(comments, replies[i])]])

TopEntry(c) == [type |-> "top", comment |-> c, parentUsername |-> Null]
ReplyEntry(r) ==
  [type |-> "reply", comment |-> r.comment, parentUsername |-> r.parentUsername]

\* the result loop: each top-level comment, then the replies keyed by its id
RECURSIVE EmitThreads(_, _)
EmitThreads(comments, topLevel) ==
  IF topLevel = <<>> THEN <<>>
  ELSE LET replies == RepliesByParent(comments, topLevel[1].id)
       IN <<TopEntry(topLevel[1])>>
          \o [i \in 1..Len(replies) |-> ReplyEntry(replies[i])]
          \o EmitThreads(comments, Tail(topLevel))

buildThreadedComments(comments) ==
  EmitThreads(comments, SortByCreatedAt(SelectSeq(comments, IsTopLevel)))

ThreadInit ==
  /\ \E n \in 0..MaxComments : \E f \in CommentFields(n) : cComments = CommentList(n, f)
  /\ cThreaded = <<>>
  /\ cRendered = FALSE

ThreadIdleInit ==
  /\ cComments = <<>>
  /\ cThreaded = <<>>
  /\ cRendered = FALSE

ThreadOnly == UNCHANGED <<friendVars, resolveVars, toggleVars, reactVars, stackVars,
    lifeVars,
    feedVars,
    failVars,
    aggVars,
    storeVars,
    flipVars,
    focusVars,
    authVars>>

\* the sheet renders: threadedComments = buildThreadedComments(comments)
RenderThread ==
  /\ ~cRendered
  /\ cThreaded' = buildThreadedComments(cComments)
  /\ cRendered' = TRUE
  /\ UNCHANGED cComments
  /\ ThreadOnly

ThreadNext == RenderThread

\* ------------------------------------------------------------------------
\* The card stack's swipe controller (CardStack.panResponder)
\* ------------------------------------------------------------------------
SWIPE_THRESHOLD == 120

NoIndex == -1        \* initialIndex undefined; no swipe animation running

Min(a, b) == IF a < b THEN a ELSE b
Max(a, b) == IF a > b THEN a ELSE b
Abs(n) == IF n < 0 THEN -n ELSE n

\* the dx a drag is released at: short of, on and beyond the threshold
Drags ==
  {-(SWIPE_THRESHOLD + 1), -SWIPE_THRESHOLD, 0, SWIPE_THRESHOLD, SWIPE_THRESHOLD + 1}

safeInitial(initialIndex, len) ==
  Min(Max(0, IF initialIndex = NoIndex THEN 0 ELSE initialIndex), Max(0, len - 1))

NextIndex_Clamped(dx, cur, len) ==
  IF dx > 0 THEN Max(0, cur - 1) ELSE Min(len - 1, cur + 1)

\* `next` of onPanResponderRelease
NextIndex(dx, cur, len) ==
  IF dx > 0
  THEN IF cur = 0 THEN len - 1 ELSE cur - 1
  ELSE IF cur = len - 1 THEN 0 ELSE cur + 1

StackInit ==
  /\ sLen \in 1..MaxPosts
  /\ sInitial \in {NoIndex} \cup (0..MaxPosts)
  /\ currentIndex = safeInitial(sInitial, sLen)
  /\ sNext = NoIndex
  /\ sStart = currentIndex
  /\ sSwipes = <<>>

StackIdleInit ==
  /\ sLen = 1
  /\ sInitial = NoIndex
  /\ currentIndex = 0
  /\ sNext = NoIndex
  /\ sStart = 0
  /\ sSwipes = <<>>

\* a step of the stack or of its life leaves the other components alone
LifeOnly == UNCHANGED <<friendVars, resolveVars, toggleVars, reactVars, threadVars,
    feedVars,
    failVars,
    aggVars,
    storeVars,
    flipVars,
    focusVars,
    authVars>>

StackOnly == LifeOnly /\ UNCHANGED lifeVars

\* BeyondThreshold, with a drag released on the threshold counted as a swipe
BeyondThreshold_Inclusive(dx) == Abs(dx) >= SWIPE_THRESHOLD

\* Math.abs(dx) > SWIPE_THRESHOLD
BeyondThreshold(dx) == Abs(dx) > SWIPE_THRESHOLD

\* onPanResponderRelease at dx.  A drag moves translateX before it is released,
\* which ends a swipe animation still running, so no swipe is in flight here.
ReleaseEffect(dx) ==
  /\ sNext = NoIndex
  /\ Len(sSwipes) < MaxSwipes
  /\ IF BeyondThreshold(dx) /\ sLen # 0
     THEN /\ sNext' = NextIndex(dx, currentIndex, sLen)
          /\ sSwipes' = Append(sSwipes, IF dx > 0 THEN "right" ELSE "left")
     ELSE UNCHANGED <<sNext, sSwipes>>
  /\ UNCHANGED <<sLen, sInitial, currentIndex, sStart>>

Release(dx) == ReleaseEffect(dx) /\ StackOnly

PanResponderRelease == \E dx \in Drags : Release(dx)

\* the swipe animation's completion callback: setCurrentIndex(next)
SwipeEndEffect ==
  /\ sNext # NoIndex
  /\ currentIndex' = sNext
  /\ sNext' = NoIndex
  /\ UNCHANGED <<sLen, sInitial, sStart, sSwipes>>

SwipeAnimationEnd == SwipeEndEffect /\ StackOnly

StackNext == PanResponderRelease \/ SwipeAnimationEnd

\* ------------------------------------------------------------------------
\* The card stack's life on the profile screen: deletions and closing
\* ------------------------------------------------------------------------
NoDelete == -1       \* no delete of handleDeletePost is awaiting its calls

LifeInit ==
  /\ sClose = "open"
  /\ sDeleting = NoDelete
  /\ sDeletes = 0

LifeIdleInit ==
  /\ sClose = "open"
  /\ sDeleting = NoDelete
  /\ sDeletes = 0

\* the stack is rendered: the host has not yet run onClose
Mounted == sClose # "closed"

\* a drag released on the top card; the pan handlers stay attached while mounted
LifeRelease == Mounted /\ PanResponderRelease

\* the swipe animation's callback; setCurrentIndex does nothing once unmounted
LifeSwipeAnimationEnd == Mounted /\ SwipeAnimationEnd

\* a tap on the focused card's reaction bar, which stays rendered while mounted
LifeReactionTap == Mounted /\ StackTap

\* handleDeletePost, Delete pressed in the alert: the storage and posts calls
\* are awaited, with posts.length as the callback closed over it
TapDelete ==
  /\ Mounted
  /\ sLen >= 1
  /\ sDeleting = NoDelete
  /\ sDeletes < MaxDeletes
  /\ sDeleting' = sLen
  /\ sDeletes' = sDeletes + 1
  /\ UNCHANGED <<stackVars, sClose>>
  /\ LifeOnly

\* the awaited calls are over (their errors are not read): onPostDeleted, the
\* host's filter of selectedPosts, onClose when the closed-over length was <= 1,
\* and the render that follows with the clamp effect on posts.length
DeleteDone ==
  /\ sDeleting # NoDelete
  /\ sDeleting' = NoDelete
  /\ IF ~Mounted
     THEN UNCHANGED <<stackVars, sClose>>
     ELSE LET len == sLen - 1 IN
          /\ sLen' = len
          /\ sClose' = IF sDeleting <= 1 \/ len = 0 THEN "closed" ELSE sClose
          /\ currentIndex' = IF sDeleting <= 1 \/ len = 0 THEN currentIndex
                             ELSE Min(currentIndex, len - 1)
          /\ UNCHANGED <<sInitial, sNext, sStart, sSwipes>>
  /\ UNCHANGED sDeletes
  /\ LifeOnly

\* handleClose: the close animation starts
HandleClose ==
  /\ sClose = "open"
  /\ sClose' = "closing"
  /\ UNCHANGED <<stackVars, sDeleting, sDeletes>>
  /\ LifeOnly

\* the close animation's callback: onClose, the host unmounts the stack
CloseAnimationEnd ==
  /\ sClose = "closing"
  /\ sClose' = "closed"
  /\ UNCHANGED <<stackVars, sDeleting, sDeletes>>
  /\ LifeOnly

LifeNext ==
  \/ LifeRelease
  \/ LifeSwipeAnimationEnd
  \/ LifeReactionTap
  \/ TapDelete
  \/ DeleteDone
  \/ HandleClose
  \/ CloseAnimationEnd

\* ------------------------------------------------------------------------
\* The feed screen: pages of posts, deletions, and the fetches in flight
\* ------------------------------------------------------------------------
PAGE_SIZE == 20

Me == "u1"           \* profile.id of the viewer

\* posts.user_id; a post's id grows with its created_at
AuthorOf(p) ==
  CASE p % 6 = 0 -> "u3"
    [] p % 6 = 3 -> "u2"
    [] OTHER -> Me

\* the posts of the page
PagePosts == {1, 2}

\* the reactions rows: at most one of a user on a post
\* (reactions_post_id_user_id_key)
ReactionRows == [post_id : PagePosts, user_id : Users, emoji : ReactEmojis]

ReactionLists(n) ==
  {l \in [1..n -> ReactionRows] :
     \A i, j \in 1..n :
       (l[i].post_id = l[j].post_id /\ l[i].user_id = l[j].user_id) => i = j}

\* the comments rows in the order of .order('created_at', { ascending: false }):
\* the ids count down from the newest row
PageCommentLists(n) ==
  {[i \in 1..n |-> [id |-> n + 1 - i, post_id |-> f[i]]] : f \in [1..n -> PagePosts]}

\* the body of the loop over the reactions rows
ReactionStep(acc, row, userId) ==
  LET pid == row.post_id
      emoji == row.emoji
      ofPost == Get(acc.counts, pid, <<>>)
  IN [counts |-> Put(acc.counts, pid, Put(ofPost, emoji, Get(ofPost, emoji, 0) + 1)),
      mine |-> IF row.user_id = userId THEN Put(acc.mine, pid, emoji) ELSE acc.mine]

RECURSIVE FoldReactions(_, _, _, _)
FoldReactions(rows, i, acc, userId) ==
  IF i > Len(rows) THEN acc
  ELSE FoldReactions(rows, i + 1, ReactionStep(acc, rows[i], userId), userId)

\* CommentStep, with latestByPost written for every row
CommentStep_KeepsLast(acc, c) ==
  LET pid == c.post_id
  IN [count |-> Put(acc.count, pid, Get(acc.count, pid, 0) + 1),
      seen |-> acc.seen \cup {pid},
      latest |-> Put(acc.latest, pid, c.id)]

\* the body of the loop over the comments rows
CommentStep(acc, c) ==
  LET pid == c.post_id
  IN [count |-> Put(acc.count, pid, Get(acc.count, pid, 0) + 1),
      seen |-> acc.seen \cup {pid},
      latest |-> IF pid \notin acc.seen THEN Put(acc.latest, pid, c.id)
                 ELSE acc.latest]

RECURSIVE FoldComments(_, _, _)
FoldComments(rows, i, acc) ==
  IF i > Len(rows) THEN acc
  ELSE FoldComments(rows, i + 1, CommentStep(acc, rows[i]))

Maximum(S) == CHOOSE m \in S : \A x \in S : x <= m

\* .order('created_at', { ascending: false })
RECURSIVE NewestFirst(_)
NewestFirst(S) ==
  IF S = {} THEN <<>>
  ELSE <<Maximum(S)>> \o NewestFirst(S \ {Maximum(S)})

Range_OneMore(rows, from, to) == SubSeq(rows, from + 1, Min(to + 2, Len(rows)))

\* .range(from, to): the rows at positions from..to, counted from zero
Range(rows, from, to) == SubSeq(rows, from + 1, Min(to + 1, Len(rows)))

AllowedIds_WithStrangers(userId, friendIds) == {userId, "u3"} \cup friendIds

\* allowedIds = [userId, ...friendIds]
AllowedIds(userId, friendIds) == {userId} \cup friendIds

\* .in('user_id', allowedIds)
VisiblePosts(table, allowedIds) == {p \in table : AuthorOf(p) \in allowedIds}

Elements(seq) == {seq[i] : i \in 1..Len(seq)}

Without(seq, p) == SelectSeq(seq, LAMBDA x : x # p)

NoPost == 0          \* fadingOutId null

\* the rows of the posts table when the feed opens: none, one, and with the
\* friend's posts visible one page and a bit (21), a page and five (25)
TableSizes == {0, 1, 24, 30}

\* the post whose reactions and comments are followed: the oldest one
Tracked == {1}

\* the four maps of the screen, all empty
NoMaps == [reactions |-> <<>>, userReactions |-> <<>>, commentCount |-> <<>>,
           latest |-> <<>>]

\* MapsAfterEmptyPage, clearing the maps for an appended page too
MapsAfterEmptyPage_AlwaysCleared(append, maps) == NoMaps

\* if (postIds.length === 0) { if (!append) { the four maps are set to {} } }
MapsAfterEmptyPage(append, maps) == IF append THEN maps ELSE NoMaps

\* { ...prev, ...next }
Spread(prev, next) ==
  [x \in (DOMAIN prev) \cup (DOMAIN next) |->
     IF x \in DOMAIN next THEN next[x] ELSE prev[x]]

\* the four setState calls of an appended page
MergeMaps(prev, new) ==
  [reactions |-> Spread(prev.reactions, new.reactions),
   userReactions |-> Spread(prev.userReactions, new.userReactions),
   commentCount |-> Spread(prev.commentCount, new.commentCount),
   latest |-> Spread(prev.latest, new.latest)]

\* the rows of a read, in the order the store returns them
RECURSIVE InStoreOrder(_)
InStoreOrder(S) ==
  IF S = {} THEN <<>>
  ELSE LET x == CHOOSE y \in S : TRUE IN <<x>> \o InStoreOrder(S \ {x})

\* from('reactions').select('*').in('post_id', postIds)
ReadReactions(store, postIds) ==
  InStoreOrder({row \in store : row.post_id \in postIds})

\* from('comments').select(...).in('post_id', postIds), newest first
ReadComments(count, postIds) ==
  IF Tracked \subseteq postIds
  THEN [i \in 1..count |-> [id |-> count + 1 - i, post_id |-> CHOOSE p \in Tracked : TRUE]]
  ELSE <<>>

StoreIdleInit ==
  /\ fMaps = NoMaps
  /\ rStore = {}
  /\ cStore = 0
  /\ rEvents = 0

FeedInit ==
  /\ \E n \in TableSizes : pTable = 1..n
  /\ fAccepted \in {{}, {"u2"}}
  /\ fPosts = <<>>
  /\ fHasMore = TRUE
  /\ fLoading = TRUE
  /\ fLoadingMore = FALSE
  /\ fFocused = FALSE
  /\ fFetches = <<>>
  /\ fFading = NoPost
  /\ fRemoved = {}
  /\ fEvents = 0

FeedIdleInit ==
  /\ pTable = {}
  /\ fAccepted = {}
  /\ fPosts = <<>>
  /\ fHasMore = TRUE
  /\ fLoading = TRUE
  /\ fLoadingMore = FALSE
  /\ fFocused = FALSE
  /\ fFetches = <<>>
  /\ fFading = NoPost
  /\ fRemoved = {}
  /\ fEvents = 0
  /\ StoreIdleInit

ScreensOnly ==
  UNCHANGED <<friendVars, resolveVars, toggleVars, reactVars, threadVars, stackVars,
              lifeVars, failVars, aggVars, flipVars, focusVars, authVars>>

\* a step that touches neither the aggregates nor the rows they are folded from
FeedOnly == ScreensOnly /\ UNCHANGED storeVars

\* fetchPage(offset, append, silent) up to its first await
IssueFetch(offset, append, silent) ==
  /\ Len(fFetches) < MaxFetches
  /\ fLoading' = IF ~silent /\ offset = 0 THEN TRUE ELSE fLoading
  /\ fLoadingMore' = IF ~silent /\ offset # 0 THEN TRUE ELSE fLoadingMore
  /\ fFetches' = Append(fFetches,
       [offset |-> offset, append |-> append, stage |-> "friendships",
        accepted |-> {}, allowed |-> {}, visible |-> {}, list |-> <<>>,
        error |-> FALSE])

\* the focus effect: fetchPage(0, false), silent after the first time
FocusFetch ==
  /\ IssueFetch(0, FALSE, fFocused)
  /\ fFocused' = TRUE
  /\ UNCHANGED <<pTable, fAccepted, fPosts, fHasMore, fFading, fRemoved,
                 fEvents>>
  /\ FeedOnly

\* handleRefresh
Refresh ==
  /\ fFocused
  /\ IssueFetch(0, FALSE, FALSE)
  /\ UNCHANGED <<pTable, fAccepted, fPosts, fHasMore, fFocused, fFading, fRemoved,
                 fEvents>>
  /\ FeedOnly

\* handleEndReached
EndReached ==
  /\ fFocused
  /\ ~(fLoadingMore \/ ~fHasMore \/ fLoading \/ Len(fPosts) = 0)
  /\ IssueFetch(Len(fPosts), TRUE, FALSE)
  /\ UNCHANGED <<pTable, fAccepted, fPosts, fHasMore, fFocused, fFading, fRemoved,
                 fEvents>>
  /\ FeedOnly

FetchFrame ==
  /\ UNCHANGED <<pTable, fAccepted, fFocused, fFading, fRemoved>>
  /\ UNCHANGED <<rStore, cStore, rEvents>>
  /\ ScreensOnly

\* a read that succeeds, or one more failure
Outcome(ok) ==
  IF ok THEN UNCHANGED fEvents
  ELSE fEvents < MaxFeedEvents /\ fEvents' = fEvents + 1

\* the friendships read of fetch n; a failed read leaves friendships undefined
\* and friendIds empty
FetchFriendships(n) ==
  /\ fFetches[n].stage = "friendships"
  /\ \E ok \in BOOLEAN :
       /\ Outcome(ok)
       /\ fFetches' = [fFetches EXCEPT
         ![n].stage = "posts",
         ![n].accepted = fAccepted,
         ![n].allowed = AllowedIds(Me, IF ok THEN fAccepted ELSE {})]
  /\ UNCHANGED <<fPosts, fHasMore, fLoading, fLoadingMore, fMaps>>
  /\ FetchFrame

\* the store runs the posts query of fetch n, or the query fails
FetchPostsRun(n) ==
  /\ fFetches[n].stage = "posts"
  /\ \E ok \in BOOLEAN :
       LET f == fFetches[n]
           visible == VisiblePosts(pTable, f.allowed)
       IN /\ Outcome(ok)
          /\ fFetches' = [fFetches EXCEPT
            ![n].stage = "reply",
            ![n].error = ~ok,
            ![n].visible = IF ok THEN visible ELSE {},
            ![n].list = IF ok
                        THEN Range(NewestFirst(visible), f.offset,
                                   f.offset + PAGE_SIZE - 1)
                        ELSE <<>>]
  /\ UNCHANGED <<fPosts, fHasMore, fLoading, fLoadingMore, fMaps>>
  /\ FetchFrame

\* fetchPage resumes with postsData: setHasMore, setPosts, and the early
\* returns on an error and on an empty page
FetchPostsApply(n) ==
  /\ fFetches[n].stage = "reply"
  /\ LET f == fFetches[n] IN
     IF f.error
     THEN /\ fLoading' = FALSE
          /\ fLoadingMore' = FALSE
          /\ fFetches' = [fFetches EXCEPT ![n].stage = "done"]
          /\ UNCHANGED <<fPosts, fHasMore, fEvents, fMaps>>
     ELSE /\ fHasMore' = (Len(f.list) = PAGE_SIZE)
          /\ fPosts' = IF f.append THEN fPosts \o f.list ELSE f.list
          /\ IF Len(f.list) = 0
             THEN /\ fMaps' = MapsAfterEmptyPage(f.append, fMaps)
                  /\ fLoading' = FALSE
                  /\ fLoadingMore' = FALSE
                  /\ fFetches' = [fFetches EXCEPT ![n].stage = "done"]
             ELSE /\ fFetches' = [fFetches EXCEPT ![n].stage = "aggregates"]
                  /\ UNCHANGED <<fLoading, fLoadingMore, fMaps>>
          /\ UNCHANGED fEvents
  /\ FetchFrame

\* fetchPage resumes after the reactions and comments reads: the two loops,
\* then the four maps are replaced, or for an appended page merged
FetchFinish(n) ==
  /\ fFetches[n].stage = "aggregates"
  /\ LET f == fFetches[n]
         postIds == Elements(f.list)
         r == FoldReactions(ReadReactions(rStore, postIds), 1,
                            [counts |-> <<>>, mine |-> <<>>], Me)
         c == FoldComments(ReadComments(cStore, postIds), 1,
                           [count |-> <<>>, seen |-> {}, latest |-> <<>>])
         new == [reactions |-> r.counts, userReactions |-> r.mine,
                 commentCount |-> c.count, latest |-> c.latest]
     IN fMaps' = IF f.append THEN MergeMaps(fMaps, new) ELSE new
  /\ fFetches' = [fFetches EXCEPT ![n].stage = "done"]
  /\ fLoading' = FALSE
  /\ fLoadingMore' = FALSE
  /\ UNCHANGED <<fPosts, fHasMore, fEvents>>
  /\ FetchFrame

FetchStep ==
  \E n \in 1..Len(fFetches) :
    \/ FetchFriendships(n)
    \/ FetchPostsRun(n)
    \/ FetchPostsApply(n)
    \/ FetchFinish(n)

\* the viewer's own posts the feed shows: the newest and the oldest of them
OwnShown == {p \in Elements(fPosts) : AuthorOf(p) = Me}
DeleteChoices ==
  IF OwnShown = {} THEN {}
  ELSE {Maximum(OwnShown), CHOOSE m \in OwnShown : \A x \in OwnShown : m <= x}

\* handleDeletePost: the posts delete, whose error is not read, then
\* setFadingOutId
DeletePost ==
  \E p \in DeleteChoices : \E ok \in BOOLEAN :
    /\ fEvents < MaxFeedEvents
    /\ fFading = NoPost
    /\ fEvents' = fEvents + 1
    /\ pTable' = IF ok THEN pTable \ {p} ELSE pTable
    /\ fFading' = p
    /\ UNCHANGED <<fAccepted, fPosts, fHasMore, fLoading, fLoadingMore, fFocused,
                   fFetches, fRemoved>>
    /\ FeedOnly

\* handleFadeComplete, called by the card of the fading post
FadeComplete ==
  /\ fFading # NoPost
  /\ fFading \in Elements(fPosts)
  /\ fPosts' = Without(fPosts, fFading)
  /\ fRemoved' = fRemoved \cup {fFading}
  /\ fFading' = NoPost
  /\ UNCHANGED <<pTable, fAccepted, fHasMore, fLoading, fLoadingMore, fFocused,
                 fFetches, fEvents>>
  /\ FeedOnly

\* the friend accepts a request of the viewer, or one of the two unfriends
FriendshipChange ==
  /\ fEvents < MaxFeedEvents
  /\ fEvents' = fEvents + 1
  /\ fAccepted' = IF fAccepted = {} THEN {"u2"} ELSE {}
  /\ UNCHANGED <<pTable, fPosts, fHasMore, fLoading, fLoadingMore, fFocused,
                 fFetches, fFading, fRemoved>>
  /\ FeedOnly

FeedNext ==
  \/ FocusFetch
  \/ Refresh
  \/ EndReached
  \/ FetchStep
  \/ DeletePost
  \/ FadeComplete
  \/ FriendshipChange

\* no fetchPage call is outstanding
Quiet == \A n \in 1..Len(fFetches) : fFetches[n].stage = "done"

\* the gestures of a viewer who waits for a load to finish before the next
QuietFocusFetch == Quiet /\ FocusFetch
QuietRefresh == Quiet /\ Refresh
QuietEndReached == Quiet /\ EndReached

FeedPagesNext ==
  \/ QuietFocusFetch
  \/ QuietRefresh
  \/ QuietEndReached
  \/ FetchStep
  \/ DeletePost
  \/ FadeComplete
  \/ FriendshipChange


\* ---- the tracked post's rows change while the feed is shown
TrackedPost == CHOOSE p \in Tracked : TRUE

ReactionRow(p, u, e) == [post_id |-> p, user_id |-> u, emoji |-> e]

RowsOfUser(store, p, u) == {r \in store : r.post_id = p /\ r.user_id = u}

\* the rows a read of the feed folds when it opens on a post with reactions
\* and comments
StoreInit ==
  /\ fMaps = NoMaps
  /\ rStore = {ReactionRow(TrackedPost, Me, "fire"),
               ReactionRow(TrackedPost, "u2", "fire")}
  /\ cStore = 2
  /\ rEvents = 0

StoreEvent ==
  /\ rEvents < MaxStoreEvents
  /\ rEvents' = rEvents + 1
  /\ UNCHANGED <<fAccepted, fPosts, fHasMore, fLoading, fLoadingMore, fFocused,
                 fFetches, fFading, fRemoved, fEvents>>
  /\ ScreensOnly

\* the reactions table once the delete and the insert of a toggle of the feed
\* card ran; an insert next to a row of the viewer is rejected
StoreAfterToggle(store, p, prevReaction, emoji) ==
  LET others == store \ RowsOfUser(store, p, Me)
  IN IF prevReaction = emoji THEN others
     ELSE IF prevReaction # Null THEN others \cup {ReactionRow(p, Me, emoji)}
     ELSE IF RowsOfUser(store, p, Me) # {} THEN store
     ELSE store \cup {ReactionRow(p, Me, emoji)}

\* FeedCard.handleReactionToggle on the tracked post's card: onReactionChange
\* writes the post's entries of two maps; the calls run, or never reach the
\* store, and their answers are dropped
FeedToggle ==
  \E emoji \in ReactEmojis : \E ok \in BOOLEAN :
    LET p == TrackedPost
        counts == Get(fMaps.reactions, p, <<>>)
        mine == Get(fMaps.userReactions, p, Null)
        next == FeedCardToggle(counts, mine, emoji)
    IN /\ p \in Elements(fPosts)
       /\ fMaps' = [fMaps EXCEPT !.reactions = Put(@, p, next[1]),
                                 !.userReactions = Put(@, p, next[2])]
       /\ rStore' = IF ok THEN StoreAfterToggle(rStore, p, mine, emoji) ELSE rStore
       /\ UNCHANGED <<pTable, cStore>>
       /\ StoreEvent

\* the friend reacts to the tracked post, changes the reaction or removes it
OtherReacts ==
  \E e \in ReactEmojis \cup {Null} :
    LET others == rStore \ RowsOfUser(rStore, TrackedPost, "u2")
        after == IF e = Null THEN others
                 ELSE others \cup {ReactionRow(TrackedPost, "u2", e)}
    IN /\ after # rStore
       /\ rStore' = after
       /\ UNCHANGED <<pTable, cStore, fMaps>>
       /\ StoreEvent

\* the first id behind `last` whose author is the friend u2
FriendPostId(last) ==
  CHOOSE p \in (last + 1)..(last + 6) :
    /\ AuthorOf(p) = "u2"
    /\ \A q \in (last + 1)..(p - 1) : AuthorOf(q) # "u2"

\* the friend u2 posts: the new row is the newest of the table
PostInserted ==
  /\ pTable' = pTable \cup
       {FriendPostId(Maximum(pTable \cup Elements(fPosts) \cup fRemoved \cup {fFading}))}
  /\ UNCHANGED <<rStore, cStore, fMaps>>
  /\ StoreEvent

FeedStoreNext ==
  \/ FeedPagesNext
  \/ FeedToggle
  \/ OtherReacts
  \/ PostInserted

\* ------------------------------------------------------------------------
\* Friendship calls that return an error, and the toast that reports them
\* ------------------------------------------------------------------------
ErrorMessage == "error"

\* useToast outside of a ToastProvider: showToast: () => {}
showToast_Dropped(message, msg) == message

\* ToastProvider.showToast: setMessage(msg)
showToast(message, msg) == msg

FailInit ==
  /\ frFailures = 0
  /\ toastMessage = Null

FailIdleInit == FailInit

\* a step of the failing calls leaves the other components alone
FailOnly == UNCHANGED <<resolveVars, toggleVars, reactVars, threadVars, stackVars,
    lifeVars,
    feedVars,
    aggVars,
    storeVars,
    flipVars,
    focusVars,
    authVars>>

\* rows inserted and calls rejected so far
Attempts == (nextEdgeId - 1) + frFailures

\* if (error) { showToast(error.message); return; } -- the table did not take
\* the mutation, and the handler returns before any of its setState calls
ErrorReturn ==
  /\ Attempts < MaxEdges
  /\ frFailures' = frFailures + 1
  /\ toastMessage' = showToast(toastMessage, ErrorMessage)
  /\ UNCHANGED friendVars
  /\ FailOnly

\* FriendsScreen.handleAddFriend whose insert returned an error
FS_AddFriendFail(u) ==
  /\ buttonState(u, OtherUser(u), fsFriendships[u]) = "add"
  /\ ErrorReturn

\* FriendsScreen.handleAccept whose update returned an error
FS_AcceptFail(u) ==
  /\ \/ buttonState(u, OtherUser(u), fsFriendships[u]) = "accept"
     \/ fsRequests[u] # <<>>
  /\ ErrorReturn

\* FriendsScreen.handleDecline whose update returned an error
FS_DeclineFail(u) ==
  /\ fsRequests[u] # <<>>
  /\ ErrorReturn

\* FriendsScreen.removeFriend whose delete returned an error
FS_RemoveFail(u) ==
  /\ fsFriends[u] # <<>>
  /\ ErrorReturn

\* FriendProfileScreen.handleAddFriend whose insert returned an error
FP_AddFriendFail(u) ==
  /\ fpStatus[u] = "none"
  /\ ErrorReturn

\* FriendProfileScreen.handleAcceptRequest whose update returned an error
FP_AcceptFail(u) ==
  /\ fpStatus[u] = "pending_received"
  /\ fpId[u] # NoId
  /\ ErrorReturn

\* FriendProfileScreen.handleRemoveFriend whose delete returned an error
FP_RemoveFail(u) ==
  /\ fpStatus[u] = "friends"
  /\ fpId[u] # NoId
  /\ ErrorReturn

FailedCall ==
  \E u \in Users :
    \/ FS_AddFriendFail(u)
    \/ FS_AcceptFail(u)
    \/ FS_DeclineFail(u)
    \/ FS_RemoveFail(u)
    \/ FP_AddFriendFail(u)
    \/ FP_AcceptFail(u)
    \/ FP_RemoveFail(u)

\* ToastProvider: the timeout and the slide-out animation ran, setMessage(null)
ToastHide ==
  /\ toastMessage # Null
  /\ toastMessage' = Null
  /\ UNCHANGED <<frFailures, friendVars>>
  /\ FailOnly

\* the handlers' runs whose call succeeded
SucceededCall ==
  /\ Attempts < MaxEdges
  /\ FriendsNext

FailNext ==
  \/ SucceededCall
  \/ FailedCall
  \/ ToastHide


\* ------------------------------------------------------------------------
\* The aggregates of a feed page (FeedScreen.fetchPage, after the two reads)
\* ------------------------------------------------------------------------
AggInit ==
  /\ \E n \in 0..MaxRows : aReactions \in ReactionLists(n)
  /\ \E n \in 0..MaxRows : aComments \in PageCommentLists(n)
  /\ aStage = "fetched"
  /\ countsByPost = <<>>
  /\ userReactionsByPost = <<>>
  /\ commentCountByPost = <<>>
  /\ latestByPost = <<>>

AggIdleInit ==
  /\ aReactions = <<>>
  /\ aComments = <<>>
  /\ aStage = "fetched"
  /\ countsByPost = <<>>
  /\ userReactionsByPost = <<>>
  /\ commentCountByPost = <<>>
  /\ latestByPost = <<>>

\* a step of the fold leaves the other components alone
AggOnly == UNCHANGED <<friendVars, resolveVars, toggleVars, reactVars, threadVars,
    stackVars, lifeVars, feedVars, failVars,
    storeVars,
    flipVars,
    focusVars,
    authVars>>

\* for (const row of reactions ?? []) { ... }
FoldReactionRows ==
  /\ aStage = "fetched"
  /\ aStage' = "reactions"
  /\ LET acc == FoldReactions(aReactions, 1, [counts |-> <<>>, mine |-> <<>>], Me)
     IN /\ countsByPost' = acc.counts
        /\ userReactionsByPost' = acc.mine
  /\ UNCHANGED <<aReactions, aComments, commentCountByPost, latestByPost>>
  /\ AggOnly

\* for (const c of comments ?? []) { ... }
FoldCommentRows ==
  /\ aStage = "reactions"
  /\ aStage' = "done"
  /\ LET acc == FoldComments(aComments, 1,
                             [count |-> <<>>, seen |-> {}, latest |-> <<>>])
     IN /\ commentCountByPost' = acc.count
        /\ latestByPost' = acc.latest
  /\ UNCHANGED <<aReactions, aComments, countsByPost, userReactionsByPost>>
  /\ AggOnly

AggNext ==
  \/ FoldReactionRows
  \/ FoldCommentRows


\* ------------------------------------------------------------------------
\* The card stack's drags, with the cards' flip state
\* ------------------------------------------------------------------------
FlipInit ==
  /\ sFlipped = {}
  /\ sDrags = <<>>

FlipIdleInit == FlipInit

\* a step of the drags and flips leaves the other components alone
DragOnly == UNCHANGED <<friendVars, resolveVars, toggleVars, reactVars, threadVars,
    lifeVars, feedVars, failVars, aggVars, storeVars, focusVars,
    authVars>>

\* CommentSheet.flipToBack / flipToFront on the focused card:
\* handleFlippedChange(postId, flipped)
FlipCard ==
  /\ sNext = NoIndex
  /\ sLen # 0
  /\ sFlipped' = IF currentIndex \in sFlipped
                 THEN sFlipped \ {currentIndex}
                 ELSE sFlipped \cup {currentIndex}
  /\ UNCHANGED <<sDrags, stackVars>>
  /\ DragOnly

\* a drag on the focused card, which onMoveShouldSetPanResponder refuses while
\* the card is flipped, and its release
DragRelease ==
  \E dx \in Drags :
    /\ currentIndex \notin sFlipped
    /\ Len(sDrags) < MaxSwipes
    /\ ReleaseEffect(dx)
    /\ sDrags' = Append(sDrags, dx)
    /\ UNCHANGED sFlipped
    /\ DragOnly

FlipNext ==
  \/ FlipCard
  \/ DragRelease
  \/ SwipeAnimationEnd


\* ------------------------------------------------------------------------
\* The card stack's reactions fetches while the focus moves over the posts
\* ------------------------------------------------------------------------
\* posts[index].id: the posts of the stack are numbered from 1
PostAt(index) == index + 1

\* the rows a post can hold at first: none, the viewer's fire, u2's heart
FocusRowSets == {{}, {<<Me, "fire">>}, {<<"u2", "heart">>}}

\* fetchReactions(postId), sent
IssuedFetch(postId) ==
  [post |-> postId, stage |-> "sent", counts |-> <<>>, mine |-> Null]

\* the loop of fetchReactions over the rows of the post
CountsOfRows(rows) ==
  [e \in {r[2] : r \in rows} |-> Cardinality({r \in rows : r[2] = e})]

MineOfRows(rows, userId) ==
  IF \E r \in rows : r[1] = userId
  THEN (CHOOSE r \in rows : r[1] = userId)[2]
  ELSE Null

FocusInit ==
  /\ cRows \in [1..sLen -> FocusRowSets]
  /\ cFetches = <<IssuedFetch(PostAt(currentIndex))>>
  /\ cShownFor = NoPost

FocusIdleInit ==
  /\ cRows = <<>>
  /\ cFetches = <<>>
  /\ cShownFor = NoPost

\* a step of the fetches leaves the other components alone
FocusOnly == UNCHANGED <<friendVars, resolveVars, toggleVars, threadVars,
    lifeVars, feedVars, failVars, aggVars, storeVars, flipVars,
    authVars>>

ReactQuiet ==
  UNCHANGED <<dbMine, dbOthers, feedCounts, feedUser, feedCalls, feedFetch,
              stackCalls, stackFetch, taps>>

\* a drag released on the focused card
FocusRelease ==
  \E dx \in Drags :
    /\ Len(cFetches) < MaxFetches
    /\ ReleaseEffect(dx)
    /\ UNCHANGED <<focusVars, stackCounts, stackUser>>
    /\ ReactQuiet
    /\ FocusOnly

\* the end of the swipe: setCurrentIndex(next), and the effect on currentIndex
\* calls fetchReactions(post.id) when the index changed
FocusSwipeEnd ==
  /\ SwipeEndEffect
  /\ cFetches' = IF currentIndex' # currentIndex
                 THEN Append(cFetches, IssuedFetch(PostAt(currentIndex')))
                 ELSE cFetches
  /\ UNCHANGED <<cRows, cShownFor, stackCounts, stackUser>>
  /\ ReactQuiet
  /\ FocusOnly

\* the query of a fetch reads the table, or returns an error
FocusFetchRead ==
  \E n \in 1..Len(cFetches), ok \in BOOLEAN :
    /\ cFetches[n].stage = "sent"
    /\ LET rows == cRows[cFetches[n].post]
       IN cFetches' =
            [cFetches EXCEPT ![n] =
               IF ok
               THEN [@ EXCEPT !.stage = "read",
                              !.counts = CountsOfRows(rows),
                              !.mine = MineOfRows(rows, Me)]
               ELSE [@ EXCEPT !.stage = "error"]]
    /\ UNCHANGED <<cRows, cShownFor, stackVars, stackCounts, stackUser>>
    /\ ReactQuiet
    /\ FocusOnly

\* the response arrives: setReactionCounts(counts); setUserReaction(myReaction)
FocusFetchApply ==
  \E n \in 1..Len(cFetches) :
    /\ cFetches[n].stage = "read"
    /\ cFetches' = [cFetches EXCEPT ![n].stage = "done"]
    /\ stackCounts' = cFetches[n].counts
    /\ stackUser' = cFetches[n].mine
    /\ cShownFor' = cFetches[n].post
    /\ UNCHANGED <<cRows, stackVars>>
    /\ ReactQuiet
    /\ FocusOnly

\* u2 adds a heart to a post it has no row on
FocusOtherReacts ==
  \E p \in DOMAIN cRows :
    /\ ~\E r \in cRows[p] : r[1] = "u2"
    /\ cRows' = [cRows EXCEPT ![p] = @ \cup {<<"u2", "heart">>}]
    /\ UNCHANGED <<cFetches, cShownFor, stackVars, stackCounts, stackUser>>
    /\ ReactQuiet
    /\ FocusOnly

FocusNext ==
  \/ FocusRelease
  \/ FocusSwipeEnd
  \/ FocusFetchRead
  \/ FocusFetchApply
  \/ FocusOtherReacts


\* ------------------------------------------------------------------------
\* The card stack's toggles when no remote call returns an error
\* ------------------------------------------------------------------------
\* the response of fetchReactions arrives before the first tap
FetchBeforeTaps == taps = 0 /\ StackFetchApply

\* a tap once the response of fetchReactions was applied
TapAfterFetch == stackFetch = <<>> /\ StackTap

\* the store runs an awaited call and answers without an error
StackCallSucceeds == StackCallRun /\ \A c \in stackCalls' : c.stage # "error"

SettleNext ==
  \/ StackFetchRead
  \/ FetchBeforeTaps
  \/ TapAfterFetch
  \/ StackCallSucceeds
  \/ StackResume


\* ------------------------------------------------------------------------
\* AuthProvider and the navigator's choice of screens
\* ------------------------------------------------------------------------
MaxAuthEvents == 4

Undefined == "undefined"

\* AppNavigator: the screens it renders
Screen(s, p, l) ==
  IF l \/ (s # Null /\ p = Undefined) THEN "loading"
  ELSE IF s = Null THEN "login"
  ELSE IF p = Null THEN "setup"
  ELSE "main"

\* setProfile(error || !data ? null : data)
ProfileAfterFetch(ok, userId) == IF ok THEN userId ELSE Null

AuthCall(kind, stage, userId) == [kind |-> kind, stage |-> stage, user |-> userId]

AuthInit ==
  /\ session = Null
  /\ profile = Undefined
  /\ loading = TRUE
  /\ aStored \in {Null} \cup Users
  /\ aCalls = <<AuthCall("init", "getSession", Null)>>

AuthIdleInit ==
  /\ session = Null
  /\ profile = Undefined
  /\ loading = TRUE
  /\ aStored = Null
  /\ aCalls = <<>>

\* a step of the provider leaves the other components alone
AuthOnly == UNCHANGED <<friendVars, resolveVars, toggleVars, reactVars, threadVars,
    stackVars, lifeVars, feedVars, failVars, aggVars, storeVars, flipVars, focusVars>>

\* init(): getSession resolves; setSession(s), then fetchProfile or
\* setProfile(null) and setLoading(false)
GetSessionResolved ==
  \E n \in 1..Len(aCalls) :
    /\ aCalls[n].kind = "init" /\ aCalls[n].stage = "getSession"
    /\ session' = aStored
    /\ IF aStored # Null
       THEN /\ aCalls' = [aCalls EXCEPT ![n] = AuthCall("init", "fetch", aStored)]
            /\ UNCHANGED <<profile, loading>>
       ELSE /\ aCalls' = [aCalls EXCEPT ![n].stage = "done"]
            /\ profile' = Null
            /\ loading' = FALSE
    /\ UNCHANGED aStored
    /\ AuthOnly

\* the onAuthStateChange callback with session s, up to its await
AuthStateChange(s) ==
  /\ Len(aCalls) <= MaxAuthEvents
  /\ session' = s
  /\ IF s # Null
     THEN /\ aCalls' = Append(aCalls, AuthCall("event", "fetch", s))
          /\ UNCHANGED <<profile, loading>>
     ELSE /\ aCalls' = Append(aCalls, AuthCall("event", "done", Null))
          /\ profile' = Null
          /\ loading' = FALSE

\* LoginScreen / SignUp: signInWithPassword, signUp
SignIn ==
  \E u \in Users :
    /\ Screen(session, profile, loading) = "login"
    /\ aStored = Null
    /\ aStored' = u
    /\ AuthStateChange(u)
    /\ AuthOnly

\* ProfileScreen: supabase.auth.signOut()
SignOut ==
  /\ Screen(session, profile, loading) = "main"
  /\ aStored # Null
  /\ aStored' = Null
  /\ AuthStateChange(Null)
  /\ AuthOnly

\* refreshProfile(), called by the profile and profile setup screens
RefreshProfile ==
  /\ Screen(session, profile, loading) \in {"main", "setup"}
  /\ Len(aCalls) <= MaxAuthEvents
  /\ aCalls' = Append(aCalls, AuthCall("refresh", "getUser", Null))
  /\ UNCHANGED <<session, profile, loading, aStored>>
  /\ AuthOnly

\* ... getUser resolves: fetchProfile(user.id), or setProfile(null)
RefreshGetUser ==
  \E n \in 1..Len(aCalls) :
    /\ aCalls[n].kind = "refresh" /\ aCalls[n].stage = "getUser"
    /\ IF aStored # Null
       THEN /\ aCalls' = [aCalls EXCEPT ![n] = AuthCall("refresh", "fetch", aStored)]
            /\ UNCHANGED profile
       ELSE /\ aCalls' = [aCalls EXCEPT ![n].stage = "done"]
            /\ profile' = Null
    /\ UNCHANGED <<session, loading, aStored>>
    /\ AuthOnly

\* fetchProfile resumes: setProfile(error || !data ? null : data), and its
\* caller goes on (init and the auth callback: setLoading(false))
FetchProfileDone ==
  \E n \in 1..Len(aCalls), ok \in BOOLEAN :
    /\ aCalls[n].stage = "fetch"
    /\ aCalls' = [aCalls EXCEPT ![n].stage = "done"]
    /\ profile' = ProfileAfterFetch(ok, aCalls[n].user)
    /\ loading' = IF aCalls[n].kind = "refresh" THEN loading ELSE FALSE
    /\ UNCHANGED <<session, aStored>>
    /\ AuthOnly

AuthNext ==
  \/ GetSessionResolved
  \/ SignIn
  \/ SignOut
  \/ RefreshProfile
  \/ RefreshGetUser
  \/ FetchProfileDone

\* ------------------------------------------------------------------------
\* Specifications
\* ------------------------------------------------------------------------
ResolveNext == RunProfileResolver \/ RunSearchResolver

OthersIdleInit == ThreadIdleInit /\ StackIdleInit

LaterIdleInit == LifeIdleInit /\ FeedIdleInit /\ FailIdleInit /\ AggIdleInit /\ FlipIdleInit /\ FocusIdleInit /\ AuthIdleInit

InitFriends ==
  FriendsInit /\ ResolveIdleInit /\ ToggleIdleInit /\ ReactIdleInit /\ OthersIdleInit
  /\ LaterIdleInit
SpecFriends == InitFriends /\ [][FriendsNext]_vars

InitResolve ==
  ResolveInit /\ FriendsInit /\ ToggleIdleInit /\ ReactIdleInit /\ OthersIdleInit
  /\ LaterIdleInit
SpecResolve == InitResolve /\ [][ResolveNext]_vars

InitToggle ==
  ToggleInit /\ FriendsInit /\ ResolveIdleInit /\ ReactIdleInit /\ OthersIdleInit
  /\ LaterIdleInit
SpecToggle == InitToggle /\ [][ToggleNext]_vars

InitReact ==
  ReactInit /\ FriendsInit /\ ResolveIdleInit /\ ToggleIdleInit /\ OthersIdleInit
  /\ LaterIdleInit
SpecReact == InitReact /\ [][ReactNext]_vars
SpecSettle == InitReact /\ [][SettleNext]_vars

IdleInit == FriendsInit /\ ResolveIdleInit /\ ToggleIdleInit /\ ReactIdleInit

InitThread == ThreadInit /\ StackIdleInit /\ IdleInit /\ LaterIdleInit
SpecThread == InitThread /\ [][ThreadNext]_vars

InitStack == StackInit /\ ThreadIdleInit /\ IdleInit /\ LaterIdleInit
SpecStack == InitStack /\ [][StackNext]_vars

InitLife ==
  StackInit /\ LifeInit /\ ThreadIdleInit /\ IdleInit /\ FeedIdleInit /\ FailIdleInit
  /\ AggIdleInit /\ FlipIdleInit /\ FocusIdleInit /\ AuthIdleInit
SpecLife == InitLife /\ [][LifeNext]_vars

InitFeed ==
  FeedInit /\ StoreIdleInit /\ OthersIdleInit /\ IdleInit /\ LifeIdleInit
  /\ FailIdleInit /\ AggIdleInit /\ FlipIdleInit /\ FocusIdleInit /\ AuthIdleInit
SpecFeed == InitFeed /\ [][FeedNext]_vars

InitFeedPages ==
  FeedInit /\ StoreIdleInit /\ OthersIdleInit /\ IdleInit /\ LifeIdleInit
  /\ FailIdleInit /\ AggIdleInit /\ FlipIdleInit /\ FocusIdleInit /\ AuthIdleInit
SpecFeedPages == InitFeedPages /\ [][FeedPagesNext]_vars

InitFeedMaps ==
  FeedInit /\ StoreInit /\ OthersIdleInit /\ IdleInit /\ LifeIdleInit
  /\ FailIdleInit /\ AggIdleInit /\ FlipIdleInit /\ FocusIdleInit /\ AuthIdleInit
SpecFeedMaps == InitFeedMaps /\ [][FeedPagesNext]_vars

SpecFeedStore == InitFeedPages /\ [][FeedStoreNext]_vars

InitFail ==
  FriendsInit /\ FailInit /\ ResolveIdleInit /\ ToggleIdleInit /\ ReactIdleInit
  /\ OthersIdleInit /\ LifeIdleInit /\ FeedIdleInit /\ AggIdleInit /\ FlipIdleInit /\ FocusIdleInit /\ AuthIdleInit
SpecFail == InitFail /\ [][FailNext]_vars

InitAgg ==
  AggInit /\ OthersIdleInit /\ IdleInit /\ LifeIdleInit /\ FeedIdleInit
  /\ FailIdleInit /\ FlipIdleInit /\ FocusIdleInit /\ AuthIdleInit
SpecAgg == InitAgg /\ [][AggNext]_vars

InitFlip ==
  StackInit /\ FlipInit /\ ThreadIdleInit /\ IdleInit /\ LifeIdleInit
  /\ FeedIdleInit /\ FailIdleInit /\ AggIdleInit /\ FocusIdleInit /\ AuthIdleInit
SpecFlip == InitFlip /\ [][FlipNext]_vars

InitFocus ==
  StackInit /\ FocusInit /\ ThreadIdleInit /\ IdleInit /\ LifeIdleInit
  /\ FeedIdleInit /\ FailIdleInit /\ AggIdleInit /\ FlipIdleInit /\ AuthIdleInit
SpecFocus == InitFocus /\ [][FocusNext]_vars

InitAuth ==
  AuthInit /\ OthersIdleInit /\ IdleInit /\ LifeIdleInit /\ FeedIdleInit
  /\ FailIdleInit /\ AggIdleInit /\ FlipIdleInit /\ FocusIdleInit
SpecAuth == InitAuth /\ [][AuthNext]_vars

\* ------------------------------------------------------------------------
\* Claims about the relationship resolver and the request lifecycle
\* ------------------------------------------------------------------------
HasPendingEdge(table, r, a) ==
  \E i \in 1..Len(table) :
    /\ table[i].requester_id = r
    /\ table[i].addressee_id = a
    /\ table[i].status = "pending"

HasAcceptedEdge(table, a, b) ==
  \E i \in 1..Len(table) : Between(table[i], a, b) /\ table[i].status = "accepted"

\* C2: for every (viewer, other) pair the resolver of either screen, run over
\* the viewer's rows of the table, returns one of the four relationship states,
\* and returns friends exactly when the table holds an accepted edge between
\* the two users, also when the pair has several edges.
C2_FriendsIffAcceptedEdge ==
  \A v \in Users :
    LET o == OtherUser(v)
        p == ResolveProfile(v, o, friendships)
        q == ResolveSearch(v, o, friendships)
    IN /\ p \in RelationshipStates
       /\ q \in RelationshipStates
       /\ (p = "friends") <=> HasAcceptedEdge(friendships, v, o)
       /\ (q = "friends") <=> HasAcceptedEdge(friendships, v, o)

\* C3: over one edge list, a's resolver reports pending_sent exactly when b's
\* reports pending_received, and pending_received exactly when b's reports
\* pending_sent, on both screens.
C3_PendingSymmetry ==
  rOut # NoResult =>
    /\ (rOut.mine = "pending_sent") <=> (rOut.theirs = "pending_received")
    /\ (rOut.mine = "pending_received") <=> (rOut.theirs = "pending_sent")

C3_Witness ==
  /\ rOut.mine = "pending_sent"
  /\ rOut.theirs = "pending_received"
  /\ Len(rEdges) = MaxListLen
  /\ \A i \in 1..Len(rEdges) : Between(rEdges[i], rViewer, rOther)

SendRequestBy(r) == FS_AddFriend(r) \/ FP_AddFriend(r)
AcceptBy(a) == FS_AcceptSearch(a) \/ FS_AcceptRequest(a) \/ FP_Accept(a)

BothResolve(table, r, a, rState, aState) ==
  /\ ResolveProfile(r, a, table) = rState
  /\ ResolveSearch(r, a, table) = rState
  /\ ResolveProfile(a, r, table) = aState
  /\ ResolveSearch(a, r, table) = aState

\* C4: with no edge between R and A, a sendRequest by R leaves exactly one edge
\* between them, pending with requester R; R then resolves pending_sent (also on
\* the screen that sent it) and A pending_received; and when A accepts that
\* edge, both resolve friends (A also on the screen that accepted).
C4_RequestLifecycle ==
  [][\A r \in Users :
       LET a == OtherUser(r) IN
       /\ (/\ friendships' # friendships
           /\ EdgesBetween(friendships, r, a) = {}
           /\ SendRequestBy(r)) =>
            /\ Cardinality(EdgesBetween(friendships', r, a)) = 1
            /\ \A i \in EdgesBetween(friendships', r, a) :
                 /\ friendships'[i].status = "pending"
                 /\ friendships'[i].requester_id = r
                 /\ friendships'[i].addressee_id = a
            /\ BothResolve(friendships', r, a, "pending_sent", "pending_received")
            /\ FS_AddFriend(r) => buttonState(r, a, fsFriendships'[r]) = "pending"
            /\ FP_AddFriend(r) => fpStatus'[r] = "pending_sent"
       /\ (/\ friendships' # friendships
           /\ Cardinality(EdgesBetween(friendships, r, a)) = 1
           /\ BothResolve(friendships, r, a, "pending_sent", "pending_received")
           /\ HasPendingEdge(friendships, r, a)
           /\ AcceptBy(a)) =>
            /\ BothResolve(friendships', r, a, "friends", "friends")
            /\ FP_Accept(a) => fpStatus'[a] = "friends"
            /\ ~FP_Accept(a) => buttonState(a, r, fsFriendships'[a]) = "friends"
    ]_vars

\* the lifecycle has run once: the only edge ever inserted is now accepted
C4_Witness ==
  /\ nextEdgeId = 2
  /\ Len(friendships) = 1
  /\ friendships[1].status = "accepted"
  /\ \E a \in Users : fpStatus[a] = "friends" /\ friendships[1].addressee_id = a

\* ------------------------------------------------------------------------
\* Claims about the local part of a toggle
\* ------------------------------------------------------------------------
\* a count as the reaction bar shows it: counts[emoji] ?? 0
Shown(c, e) == Get(c, e, 0)

\* the toggle as the contract words it, on shown counts
RefCount(c, ur, emoji, x) ==
  IF ur = emoji
  THEN IF x = emoji THEN Max0(Shown(c, x) - 1) ELSE Shown(c, x)
  ELSE IF x = emoji THEN Shown(c, x) + 1
       ELSE IF x = ur THEN Max0(Shown(c, x) - 1)
       ELSE Shown(c, x)
RefUser(ur, emoji) == IF ur = emoji THEN Null ELSE emoji

\* C5: every toggle, from the feed card or the card stack, leaves the counts
\* and the user reaction the contract prescribes: same emoji -> that count
\* minus one (floor zero) and no reaction; another emoji -> the previous
\* reaction's count minus one (floor zero), the new emoji's count plus one, the
\* new emoji as reaction; every other emoji's count as it was.
C5_ToggleMatchesContract ==
  [][\A emoji \in Emojis :
       tHist' = Append(tHist, emoji) =>
         /\ tUser' = RefUser(tUser, emoji)
         /\ \A x \in Emojis : Shown(tCounts', x) = RefCount(tCounts, tUser, emoji, x)
    ]_vars

\* a switch from a reaction whose count was already zero: the floor applies
C5_Witness ==
  /\ Len(tHist) = 1
  /\ tOrig[2] \in Emojis
  /\ tOrig[2] # tHist[1]
  /\ Shown(tOrig[1], tOrig[2]) = 0
  /\ tUser = tHist[1]
  /\ Shown(tCounts, tOrig[2]) = 0

SameShown(c, d) == \A x \in Emojis : Shown(c, x) = Shown(d, x)

TwiceSame == Len(tHist) = 2 /\ tHist[1] = tHist[2]

NoCallInFlight == feedCalls = {} /\ stackCalls = {}

\* C1: whatever toggles the user issued from the feed card and the card stack,
\* and in whatever order the store ran their deletes and inserts, the table
\* holds at most one row for (post, user) and each local userReaction is one
\* emoji or null.
C1_AtMostOneReaction ==
  /\ Cardinality(dbMine) <= 1
  /\ feedUser \in ReactEmojis \cup {Null}
  /\ stackUser \in ReactEmojis \cup {Null}

\* every tap is spent, every call is over, and the table kept a row that is not
\* the emoji the feed card shows: the store refused or reordered a request
C1_Witness ==
  /\ taps = MaxTaps
  /\ NoCallInFlight
  /\ Cardinality(dbMine) = 1
  /\ feedUser \in ReactEmojis
  /\ feedUser \notin dbMine

\* the request c of the feed card ends in an error in this step
FeedCallErrs(c) ==
  /\ feedCalls' = feedCalls \ {c}
  /\ \/ FeedCallFail
     \/ FeedCallRun /\ RunCall(c.op, dbMine, c.emoji).error

\* C7: a toggle changes the local (counts, userReaction) as soon as it is
\* issued, with its remote call still outstanding; and when a remote call of a
\* toggle fails, the local (counts, userReaction) of the component that issued
\* it are the ones it had right before that toggle.
C7_FailureRestoresSnapshot ==
  [][/\ FeedCardTap =>
          /\ <<feedCounts', feedUser'>> # <<feedCounts, feedUser>>
          /\ feedCalls' # feedCalls
     /\ StackTap =>
          /\ <<stackCounts', stackUser'>> # <<stackCounts, stackUser>>
          /\ stackCalls' # stackCalls
     /\ \A c \in feedCalls :
          FeedCallErrs(c) =>
            (feedCounts' = c.prevCounts /\ feedUser' = c.prevReaction)
     /\ \A c \in stackCalls :
          (c.stage = "error" /\ StackResume /\ c \notin stackCalls') =>
            (stackCounts' = c.prevCounts /\ stackUser' = c.prevReaction)
    ]_vars

\* ------------------------------------------------------------------------
\* Claims about the comment thread builder
\* ------------------------------------------------------------------------
IsTopEntry(i) == cThreaded[i].type = "top"
IsReplyEntry(i) == cThreaded[i].type = "reply"

\* the entry i is a reply, the top-level comment it answers is some entry j
\* before it, and only replies to that comment lie between the two
InBlockOfParent(i) ==
  \E j \in 1..(i - 1) :
    /\ IsTopEntry(j)
    /\ cThreaded[j].comment.id = cThreaded[i].comment.parent_id
    /\ \A k \in (j + 1)..i :
         /\ IsReplyEntry(k)
         /\ cThreaded[k].comment.parent_id = cThreaded[j].comment.id

\* the number of entries that carry the comment c
EntriesOf(c) == Cardinality({i \in 1..Len(cThreaded) : cThreaded[i].comment = c})

IsOrphan(c) ==
  c.parent_id # NoParent /\ FindComment(cComments, c.parent_id) = NoComment

\* C9: a reply whose parent_id matches no comment of the list has an entry in
\* the thread layout, of type reply and with parentUsername "unknown".
C9_OrphanReplyEmitted ==
  cRendered =>
    \A n \in 1..Len(cComments) :
      IsOrphan(cComments[n]) =>
        \E i \in 1..Len(cThreaded) :
          /\ cThreaded[i].comment = cComments[n]
          /\ IsReplyEntry(i)
          /\ cThreaded[i].parentUsername = Unknown

\* ------------------------------------------------------------------------
\* Claims about the card stack
\* ------------------------------------------------------------------------
AllSwipes(dir) == \A i \in 1..Len(sSwipes) : sSwipes[i] = dir

\* C10: over N >= 2 posts, a drag released beyond the threshold to the left
\* takes currentIndex to (currentIndex + 1) mod N and one released to the right
\* to (currentIndex - 1) mod N, once its animation ends; N swipes to the left
\* from any index end on that index, and one swipe to the right from index 0
\* ends on N - 1.
C10_SwipeWrapsAround ==
  /\ [][\A dx \in Drags :
          (Release(dx) /\ sLen >= 2 /\ Abs(dx) > SWIPE_THRESHOLD) =>
            /\ dx < 0 => sNext' = (currentIndex + 1) % sLen
            /\ dx > 0 => sNext' = (currentIndex - 1) % sLen
       ]_vars
  /\ [][SwipeAnimationEnd => currentIndex' = sNext]_vars
  /\ [](/\ (sLen >= 2 /\ sNext = NoIndex /\ Len(sSwipes) = sLen /\ AllSwipes("left"))
            => currentIndex = sStart
        /\ (sLen >= 2 /\ sNext = NoIndex /\ sStart = 0 /\ sSwipes = <<"right">>)
            => currentIndex = sLen - 1)

\* N swipes to the left from an index that is not the first: the walk passed
\* the last post and came back
C10_Witness ==
  /\ sLen >= 2
  /\ sStart > 0
  /\ sNext = NoIndex
  /\ Len(sSwipes) = sLen
  /\ AllSwipes("left")
  /\ currentIndex = sStart

\* ------------------------------------------------------------------------
\* Claims about the card stack's life
\* ------------------------------------------------------------------------
\* C11: while the stack is open over a non-empty list, 0 <= currentIndex <
\* posts.length, at open and after every interleaving of swipe releases, swipe
\* animation ends and deletions; and an emptied list has closed the stack.
C11_IndexInRange ==
  /\ (Mounted /\ sLen >= 1) => (0 <= currentIndex /\ currentIndex < sLen)
  /\ sLen = 0 => ~Mounted

\* C12: once handleClose has run, no later step of the stack (swipe, reaction
\* toggle, deletion) changes currentIndex or the reaction state.
C12_CloseIsTerminal ==
  [][sClose # "open" =>
       /\ currentIndex' = currentIndex
       /\ stackUser' = stackUser
       /\ stackCounts' = stackCounts]_vars

\* ------------------------------------------------------------------------
\* Claims about the feed
\* ------------------------------------------------------------------------
\* the fetches whose posts query has returned rows
Responded ==
  {n \in 1..Len(fFetches) :
     fFetches[n].stage \in {"reply", "aggregates", "done"} /\ ~fFetches[n].error}

\* the number of posts of S that are newer than p
Rank(p, S) == Cardinality({q \in S : q > p})

\* list holds, newest first, the posts at positions [offset, offset + limit) of S
IsPage(list, S, offset, limit) ==
  /\ \A i, j \in 1..Len(list) : i < j => list[i] > list[j]
  /\ Elements(list) = {p \in S : Rank(p, S) >= offset /\ Rank(p, S) < offset + limit}

\* C13: a page load returns the posts at positions [offset, offset + PAGE_SIZE)
\* of the newest-first list of the posts of the viewer and the accepted friends,
\* and sets hasMore exactly when it returned PAGE_SIZE posts; with 25 visible
\* posts the load at offset 0 returns 20 and the load at offset 20 returns 5.
C13_PageAndHasMore ==
  /\ [](\A n \in Responded :
          LET f == fFetches[n] IN
          /\ IsPage(f.list, f.visible, f.offset, PAGE_SIZE)
          /\ Cardinality(f.visible) = 25 =>
               /\ f.offset = 0 => Len(f.list) = 20
               /\ f.offset = 20 => Len(f.list) = 5)
  /\ [][\A n \in 1..Len(fFetches) :
          (FetchPostsApply(n) /\ ~fFetches[n].error) =>
            fHasMore' = (Len(fFetches[n].list) = PAGE_SIZE)]_vars

\* 25 visible posts: the first load gave 20 of them, the load at offset 20 the
\* other 5, and hasMore is false
C13_Witness ==
  /\ Len(fFetches) = 2
  /\ Quiet
  /\ Responded = {1, 2}
  /\ Cardinality(fFetches[1].visible) = 25
  /\ fFetches[2].offset = 20
  /\ Len(fFetches[2].list) = 5
  /\ Len(fPosts) = 25
  /\ ~fHasMore

\* C14: a post that handleFadeComplete removed from the feed is not in the feed.
C14_RemovedStaysRemoved ==
  \A p \in fRemoved : p \notin Elements(fPosts)

\* C15: every post a page load returned is the viewer's or a user's who had an
\* accepted edge to the viewer when the load read the friendships; the posts of
\* the feed all come from such loads; and a load that found no friend returns
\* the page of the viewer's own posts.
C15_OnlyVisibleAuthors ==
  /\ \A n \in Responded :
       LET f == fFetches[n] IN
       /\ \A p \in Elements(f.list) : AuthorOf(p) = Me \/ AuthorOf(p) \in f.accepted
       /\ f.accepted = {} =>
            IsPage(f.list, {p \in f.visible : AuthorOf(p) = Me}, f.offset, PAGE_SIZE)
  /\ \A p \in Elements(fPosts) :
       \E n \in Responded : p \in Elements(fFetches[n].list)

\* a load with a friend that returned a post of the friend, and a load without
\* friends that returned posts, all of them the viewer's
C15_Witness ==
  /\ Len(fFetches) = 2
  /\ Quiet
  /\ Responded = {1, 2}
  /\ \E p \in Elements(fFetches[1].list) : AuthorOf(p) = "u2"
  /\ fFetches[2].accepted = {}
  /\ fFetches[2].list # <<>>
  /\ \A p \in Elements(fPosts) : AuthorOf(p) = Me

\* C18: once every fetch has resolved, the feed is the list of the load issued
\* last (a refresh or focus load that returned rows), whatever the order in
\* which the responses arrived.
C18_LaterFetchWins ==
  (/\ Quiet
   /\ Len(fFetches) = 2
   /\ fFading = NoPost /\ fRemoved = {}
   /\ 2 \in Responded
   /\ ~fFetches[2].append) =>
    fPosts = fFetches[2].list


\* C16: whatever sendRequest, accept, decline and remove operations the two
\* users have issued from the two screens, the friendships table holds at most
\* one edge between them.
C16_AtMostOneEdge ==
  \A a \in Users :
    Cardinality(EdgesBetween(friendships, a, OtherUser(a))) <= 1


\* C17: when the remote call of sendRequest, accept, decline or remove returns
\* an error, the table, the friends screen's edge list, friends list and
\* pending-request list, the profile screen's status and edge id, and the
\* relationship either screen resolves are what they were before the
\* operation, and the toast shows the error's message.
C17_FailureKeepsState ==
  [][frFailures' # frFailures =>
       /\ friendships' = friendships
       /\ fsFriendships' = fsFriendships
       /\ fsFriends' = fsFriends
       /\ fsRequests' = fsRequests
       /\ fpStatus' = fpStatus
       /\ fpId' = fpId
       /\ \A u \in Users :
            buttonState(u, OtherUser(u), fsFriendships'[u]) =
              buttonState(u, OtherUser(u), fsFriendships[u])
       /\ toastMessage' = ErrorMessage]_vars

\* a call failed although the user holds an edge on a screen, and its toast has
\* been hidden since
C17_Witness ==
  /\ frFailures >= 1
  /\ toastMessage = Null
  /\ friendships # <<>>
  /\ \E u \in Users : fsFriends[u] # <<>> \/ fpStatus[u] = "friends"


\* the insert of a switch from one emoji to another, in the card stack
SwitchInsert(c) ==
  c.at = "insert" /\ c.prevReaction # Null /\ c.prevReaction # c.emoji

\* C19: in a switch from emoji A to emoji B whose delete emptied the user's
\* rows of the post, an insert that fails leaves the table with zero rows for
\* (post, user); the toggle that resumes after the failed insert, and the feed
\* card whose insert failed, issue no call; and no insert any toggle issues
\* carries the emoji the toggle started from.
C19_FailedSwitchLeavesNoRow ==
  /\ [](\A c \in stackCalls : c.at = "insert" => c.emoji # c.prevReaction)
  /\ [](\A c \in feedCalls : c.op = "insert" => c.emoji # c.prevReaction)
  /\ [][/\ \A c \in stackCalls :
            /\ (/\ SwitchInsert(c) /\ c.stage = "sent" /\ dbMine = {}
                /\ [c EXCEPT !.stage = "error"] \in stackCalls') =>
                 dbMine' = {}
            /\ (/\ SwitchInsert(c) /\ c.stage = "error"
                /\ c \notin stackCalls') =>
                 /\ dbMine' = dbMine
                 /\ stackCalls' = stackCalls \ {c}
                 /\ feedCalls' = feedCalls
        /\ \A c \in feedCalls :
             (/\ c.op = "insert" /\ c.prevReaction # Null
              /\ dbMine = {}
              /\ c \notin feedCalls' /\ c.emoji \notin dbMine') =>
               /\ dbMine' = {}
               /\ feedCalls' = feedCalls \ {c}
               /\ stackCalls' = stackCalls]_vars

\* the one tap so far switched the emoji in the card stack, the delete emptied
\* the rows and the insert has failed: no row, and the toggle about to resume
C19_Witness ==
  /\ taps = 1
  /\ dbMine = {}
  /\ feedCalls = {}
  /\ \E c \in stackCalls : SwitchInsert(c) /\ c.stage = "error"


\* the rows of a list that satisfy a test
RowsWhere(rows, Test(_)) == {i \in 1..Len(rows) : Test(rows[i])}

\* C20: once both loops have run, for each post of the page and each emoji the
\* count is the number of fetched reactions rows with that post and emoji
\* (absent when there is none); the viewer's reaction is the emoji of the
\* viewer's row on the post, absent without one; the comment count is the
\* number of fetched comments rows of the post; and the latest comment is the
\* first row of the post in the fetched, newest-first, order.
C20_AggregatesAreTheFold ==
  aStage = "done" =>
    \A p \in PagePosts :
      LET mine == RowsWhere(aReactions, LAMBDA r : r.post_id = p /\ r.user_id = Me)
          ofPost == RowsWhere(aComments, LAMBDA c : c.post_id = p)
      IN /\ \A e \in ReactEmojis :
              Get(Get(countsByPost, p, <<>>), e, 0) =
                Cardinality(RowsWhere(aReactions,
                                      LAMBDA r : r.post_id = p /\ r.emoji = e))
         /\ p \in DOMAIN countsByPost => \A e \in DOMAIN countsByPost[p] :
              countsByPost[p][e] > 0
         /\ (p \in DOMAIN userReactionsByPost) <=> (mine # {})
         /\ \A i \in mine : userReactionsByPost[p] = aReactions[i].emoji
         /\ Get(commentCountByPost, p, 0) = Cardinality(ofPost)
         /\ (p \in DOMAIN latestByPost) <=> (ofPost # {})
         /\ \A i \in ofPost :
              (\A j \in ofPost : i <= j) => latestByPost[p] = aComments[i].id

\* both loops ran over a page where a post has several comments, not the newest
\* of the page among them, and two reactions rows of one emoji, one the viewer's
C20_Witness ==
  /\ aStage = "done"
  /\ \E p \in PagePosts :
       /\ Get(commentCountByPost, p, 0) >= 2
       /\ aComments[1].post_id # p
       /\ p \in DOMAIN userReactionsByPost
       /\ Get(Get(countsByPost, p, <<>>), userReactionsByPost[p], 0) = 2


\* ------------------------------------------------------------------------
\* Claims about the feed's aggregates and its accumulated list
\* ------------------------------------------------------------------------
\* the four maps hold something
SomeAggregates(maps) ==
  /\ maps.reactions # <<>>
  /\ maps.userReactions # <<>>
  /\ maps.commentCount # <<>>
  /\ maps.latest # <<>>

\* fetch n resumes with a page of zero posts
EmptyPageApplied(n) ==
  /\ n \in 1..Len(fFetches)
  /\ fFetches[n].stage = "reply"
  /\ ~fFetches[n].error
  /\ fFetches[n].list = <<>>
  /\ fFetches'[n].stage = "done"

\* C21: when a load resumes with zero posts, an initial or refresh load leaves
\* the four aggregate maps empty (and the list empty), and an appended page
\* leaves the accumulated posts and the four maps as they were.
C21_EmptyPage ==
  [][\A n \in 1..Len(fFetches) :
       EmptyPageApplied(n) =>
         IF fFetches[n].append
         THEN fPosts' = fPosts /\ fMaps' = fMaps
         ELSE fPosts' = <<>> /\ fMaps' = NoMaps]_vars

\* a refresh came back empty after a load that had filled the maps
RefreshCameBackEmpty ==
  /\ Len(fFetches) = 2
  /\ ~fFetches[2].append /\ fFetches[2].stage = "done"
  /\ ~fFetches[2].error /\ fFetches[2].list = <<>>
  /\ TrackedPost \in Elements(fFetches[1].list)
  /\ fMaps = NoMaps

\* an appended page came back empty with the list and the four maps filled
C21_Witness ==
  /\ Len(fFetches) = 2
  /\ fFetches[2].append /\ fFetches[2].stage = "done"
  /\ ~fFetches[2].error /\ fFetches[2].list = <<>>
  /\ fPosts # <<>>
  /\ SomeAggregates(fMaps)


\* ------------------------------------------------------------------------
\* Claims about drags on the card stack
\* ------------------------------------------------------------------------
\* C22: a drag released with |dx| at or below the threshold changes neither
\* currentIndex nor the index a running swipe would set, nor the length of the
\* list, nor the set of flipped cards.
C22_ShortDragChangesNothing ==
  [][\A dx \in Drags :
       (Abs(dx) <= SWIPE_THRESHOLD /\ sDrags' = Append(sDrags, dx)) =>
         /\ currentIndex' = currentIndex
         /\ sNext' = sNext
         /\ sSwipes' = sSwipes
         /\ sLen' = sLen
         /\ sFlipped' = sFlipped]_vars

\* a drag was released on the threshold, over several posts of which one is
\* flipped, after a swipe had moved the stack
C22_Witness ==
  /\ sLen >= 2
  /\ sFlipped # {}
  /\ Len(sDrags) >= 2
  /\ Abs(sDrags[Len(sDrags)]) = SWIPE_THRESHOLD
  /\ sSwipes # <<>>
  /\ sNext = NoIndex


\* ------------------------------------------------------------------------
\* Claims about the lifecycle of a friendship edge
\* ------------------------------------------------------------------------
\* the row of the table with this id, NoEdge when there is none
RowWithId(table, id) ==
  IF \E i \in 1..Len(table) : table[i].id = id
  THEN table[CHOOSE i \in 1..Len(table) : table[i].id = id]
  ELSE NoEdge

\* C23: an edge is created pending by its requester, its status changes only
\* from pending, and it is deleted only while accepted; in particular the
\* status of a declined edge is never changed by a step of the client.
C23_EdgeLifecycle ==
  [][\A id \in 1..MaxEdges :
       LET before == RowWithId(friendships, id)
           after == RowWithId(friendships', id)
       IN /\ (before = NoEdge /\ after # NoEdge) => after.status = "pending"
          /\ (before # NoEdge /\ after # NoEdge /\ after.status # before.status)
               => before.status = "pending"
          /\ (before # NoEdge /\ after = NoEdge) => before.status = "accepted"]_vars


\* ------------------------------------------------------------------------
\* Claims about the card stack's reactions fetches
\* ------------------------------------------------------------------------
\* C24: the response of a fetchReactions call is applied to reactionCounts and
\* userReaction only while the post it was issued for is the focused one.
C24_LateResponseNotApplied ==
  [][\A n \in 1..Len(cFetches) :
       (cFetches[n].stage = "read" /\ cFetches'[n].stage = "done")
         => cFetches[n].post = PostAt(currentIndex)]_vars


\* ------------------------------------------------------------------------
\* Claims about replies to replies
\* ------------------------------------------------------------------------
\* the parent of c is in the list and is itself a reply, to a top-level
\* comment of the list
IsReplyToReply(c) ==
  LET parent == FindComment(cComments, c.parent_id)
      grandparent == FindComment(cComments, parent.parent_id)
  IN /\ c.parent_id # NoParent
     /\ parent # NoComment
     /\ parent.parent_id # NoParent
     /\ grandparent # NoComment
     /\ IsTopLevel(grandparent)

\* C25: a comment whose parent is itself a reply has an entry in the thread
\* layout, of type reply and with the username of its parent's author as
\* parentUsername.
C25_ReplyToReplyEmitted ==
  cRendered =>
    \A n \in 1..Len(cComments) :
      IsReplyToReply(cComments[n]) =>
        \E i \in 1..Len(cThreaded) :
          /\ cThreaded[i].comment = cComments[n]
          /\ IsReplyEntry(i)
          /\ cThreaded[i].parentUsername = ParentUsername(cComments, cComments[n])


\* ------------------------------------------------------------------------
\* Claims about toggles whose calls overlap
\* ------------------------------------------------------------------------
\* C26: once every call the toggles issued has completed, none with an error,
\* the userReaction shown is the emoji of the viewer's row, null without a row.
C26_SettledLocalIsTheRow ==
  (taps > 0 /\ stackCalls = {} /\ stackFetch = <<>>) => stackUser \in FoldMine(dbMine)


\* C27: the rollback of a toggle whose call failed, run while a later toggle
\* of the card stack has not resumed yet, leaves the userReaction that the
\* later toggle set.
C27_RollbackKeepsLaterToggle ==
  [][\A c \in stackCalls :
       (/\ c.stage = "error"
        /\ c.at # "delete_switch"
        /\ stackCalls' = stackCalls \ {c}
        /\ \E d \in stackCalls : d.tap > c.tap)
         => stackUser' = stackUser]_vars


\* ------------------------------------------------------------------------
\* Claims about the displayed counts
\* ------------------------------------------------------------------------
\* the counts shown are not negative, and an emoji shown as the viewer's
\* reaction has a count of at least one
CountsCover(counts, userReaction) ==
  /\ \A e \in DOMAIN counts : counts[e] >= 0
  /\ userReaction # Null => Get(counts, userReaction, 0) >= 1

\* C28: in the feed, for every post, and in the card stack, every displayed
\* count is at least 0 and the count of the emoji displayed as the viewer's
\* reaction is at least 1.
C28_CountsCoverUserReaction ==
  /\ \A p \in DOMAIN fMaps.reactions \cup DOMAIN fMaps.userReactions :
       CountsCover(Get(fMaps.reactions, p, <<>>), Get(fMaps.userReactions, p, Null))
  /\ CountsCover(feedCounts, feedUser)
  /\ CountsCover(stackCounts, stackUser)


\* ------------------------------------------------------------------------
\* Claims about the accumulated feed list
\* ------------------------------------------------------------------------
\* C29: the list of the feed holds no post id twice; stated for the runs in
\* which no read of the feed has failed.
C29_NoDuplicatePost ==
  fEvents = 0 => \A i, j \in 1..Len(fPosts) : fPosts[i] = fPosts[j] => i = j


\* ------------------------------------------------------------------------
\* Claims about the signed-in screens
\* ------------------------------------------------------------------------
\* C30: while the navigator shows the main screens (loading false, session and
\* profile not null) the profile is the one of the session's user.
C30_ProfileOfSessionUser ==
  Screen(session, profile, loading) = "main" => profile = session

====
